---- MODULE Spec2Model ----
(***************************************************************************)
(* UTP Gateway: settlement engine / settlement service, the price          *)
(* oracle, conversion calculation and conversion history of the            *)
(* conversion engine / conversion service, the payment processor and       *)
(* the auth manager.                                                       *)
(*                                                                         *)
(* Two implementations of each component live in the repository:           *)
(*   "engine"  - the route-layer classes (backend/routes/*.routes.js)      *)
(*   "service" - the service-layer classes (UTPSettlementService,          *)
(*               UTPConversionService)                                     *)
(* Both are modelled side by side; Impl selects the one an operation       *)
(* runs on.                                                                *)
(*                                                                         *)
(* Money is decimal fixed point in two limbs, [u |-> whole INR,            *)
(* f |-> millionths], so that 10,000,000 INR and 0.000009 INR are both     *)
(* exact in 32-bit integers.  Products and quotients are cut off after     *)
(* the sixth decimal.  JavaScript's binary floating point error (below     *)
(* 1e-9 on these magnitudes) is not modelled; NaN is.                      *)
(***************************************************************************)
EXTENDS Integers, Sequences, FiniteSets, TLC

\* instance    which implementation this run has instantiated
\* workload    what the calls of this run ask for: the settlement method
\*             the requests name, or the asset pair, amount and options
\*             of the conversions
\* settlements the instance's settlements Map, in insertion order; the
\*             settlement_id of a record is its position
\* inflight    ids of the executeSettlement calls suspended at
\*             `await this.processSettlement(settlement)`
\* out         what the most recent operation returned or threw
\* price_cache the instance's price cache: per asset an entry or NoEntry
\* now         Date.now(), in ms
\* fetching    the getPrice calls suspended at
\*             `await this.fetchPriceFromSource(asset_type)`
\* conversion_history
\*             the instance's conversion_history Map, in insertion order
\* converting  the convert / convertAmount / getConversionRate calls that
\*             are suspended at one of their two `await this.getPrice(..)`
\* calls       how many executeSettlement calls, conversion calls,
\*             createPayment calls or registerUser / authenticateUser
\*             calls of this run have got past their entry check
\* transactions
\*             the payment processor's transactions Map, in insertion
\*             order; the payment_id of a record is its position
\* confirming  payment ids of the confirmPayment calls suspended at
\*             `await this.executeSettlement(payment)`
\* users       the auth manager's users Map, in insertion order
\* registering the registerUser calls suspended at `await bcrypt.hash(..)`
\* refresh_tokens
\*             the keys of the auth manager's refresh_tokens Map
VARIABLES instance, workload, settlements, inflight, out, price_cache, now, fetching,
          conversion_history, converting, calls,
          transactions, confirming, users, registering, refresh_tokens

vars == <<instance, workload, settlements, inflight, out, price_cache, now, fetching,
          conversion_history, converting, calls,
          transactions, confirming, users, registering, refresh_tokens>>
settleVars == <<settlements, inflight>>
priceVars == <<price_cache, now, fetching>>
convVars == <<conversion_history, converting, calls>>
payVars == <<transactions, confirming>>
authVars == <<users, registering, refresh_tokens>>

\* UTPPaymentProcessor after construction: no payment stored, no confirmation under way
NoPayments == transactions = <<>> /\ confirming = {}

\* UTPAuthManager after construction: no user, no refresh token, no registration under way
NoAccounts == users = <<>> /\ registering = {} /\ refresh_tokens = {}

Impl == {"engine", "service"}

---------------------------------------------------------------------------
(* Bounds *)

MaxCalls == 2

\* the clock advances in steps of TickMs up to MaxTime
TickMs == 15000

MaxTime == 45000

\* callers that may have a getPrice call outstanding at the same time
MaxCallers == 2

\* callers that may have a conversion outstanding at the same time
MaxConverting == 1

\* conversion calls of a run that get past their entry check
MaxConvCalls == 1

---------------------------------------------------------------------------
(* Decimal numbers *)

Micro == 1000 * 1000

NaN == [u |-> 0, f |-> -1]

IsNaN(a) == a.f < 0

Norm(u, f) == [u |-> u + (f \div Micro), f |-> f % Micro]

M(n) == [u |-> n, f |-> 0]

Tenths(n) == Norm(0, n * 100000)

MAdd(a, b) == IF IsNaN(a) \/ IsNaN(b) THEN NaN ELSE Norm(a.u + b.u, a.f + b.f)

MSub(a, b) == IF IsNaN(a) \/ IsNaN(b) THEN NaN ELSE Norm(a.u - b.u, a.f - b.f)

\* a * num / den for den a divisor of Micro
MScale(a, num, den) ==
    IF IsNaN(a) THEN NaN
    ELSE LET w == a.u * num
         IN  Norm(w \div den, (w % den) * (Micro \div den) + (a.f * num) \div den)

\* JavaScript a < b : false whenever an operand is NaN
MLt(a, b) == /\ ~IsNaN(a)
             /\ ~IsNaN(b)
             /\ (a.u < b.u \/ (a.u = b.u /\ a.f < b.f))

\* JavaScript a === b on numbers: NaN equals nothing
MEq(a, b) == ~IsNaN(a) /\ ~IsNaN(b) /\ a = b

\* Math.round(x * 100) / 100
Round2(a) == IF IsNaN(a) THEN NaN
             ELSE Norm(a.u, ((a.f + 5000) \div 10000) * 10000)

Zero == M(0)

One == M(1)

\* JavaScript truthiness of a number
Truthy(a) == ~IsNaN(a) /\ a # Zero

\* JavaScript a <= b
MLe(a, b) == MLt(a, b) \/ MEq(a, b)

\* Math.round(x * 100000) / 100000
Round5(a) == IF IsNaN(a) THEN NaN
             ELSE Norm(a.u, ((a.f + 5) \div 10) * 10)

\* u * (f millionths), exact, for |u| up to 2,000,000
MulWholeFrac(u, f) ==
    LET h == f \div 1000
        l == f % 1000
        p == u * h
    IN  Norm(p \div 1000, (p % 1000) * 1000 + u * l)

\* (f millionths) * (g millionths), cut off after the sixth decimal
MulFracFrac(f, g) ==
    LET fh == f \div 1000
        fl == f % 1000
        gh == g \div 1000
        gl == g % 1000
    IN  Norm(0, fh * gh + (fh * gl + fl * gh + (fl * gl) \div 1000) \div 1000)

\* a * b, cut off after the sixth decimal
MMul(a, b) ==
    IF IsNaN(a) \/ IsNaN(b) THEN NaN
    ELSE MAdd(MAdd(M(a.u * b.u), MulWholeFrac(a.u, b.f)),
              MAdd(MulWholeFrac(b.u, a.f), MulFracFrac(a.f, b.f)))

PowersOfTen == <<100000, 10000, 1000, 100, 10, 1>>

\* the i-th decimal of f millionths; 0 beyond the sixth
Decimal(f, i) == IF i > 6 THEN 0 ELSE (f \div PowersOfTen[i]) % 10

\* the quotient q with one more digit: d counts ten-thousandths, so the
\* first four digits after the leading one still belong to the whole part
PutDigit(q, i, digit) ==
    IF i <= 4 THEN [u |-> q.u * 10 + digit, f |-> q.f]
    ELSE [u |-> q.u, f |-> q.f * 10 + digit]

RECURSIVE LongDiv(_, _, _, _, _)
\* schoolbook division by the integer d: n is the number divided at step i
\* (the remainder so far with the i-th decimal of f brought down), q the
\* quotient so far
LongDiv(n, d, f, i, q) ==
    IF i = 10 THEN PutDigit(q, i, n \div d)
    ELSE LongDiv((n % d) * 10 + Decimal(f, i + 1), d, f, i + 1, PutDigit(q, i, n \div d))

\* a / b at the integer d = b in ten-thousandths
DivideBy(a, d) ==
    LongDiv((a.u % d) * 10 + Decimal(a.f, 1), d, a.f, 1, [u |-> a.u \div d, f |-> 0])

\* a / b for 0 <= a and 0 < b < 20000, cut off after the sixth decimal;
\* b is taken to four decimals (no price and no amount has more);
\* a NaN operand, and 0 / 0, give NaN
MDiv(a, b) ==
    IF IsNaN(a) \/ IsNaN(b) \/ b = Zero THEN NaN
    ELSE DivideBy(a, b.u * 10000 + b.f \div 100)

---------------------------------------------------------------------------
(* Settlement method tables.  fee is the rate in units of 1/10000.         *)

EngineMethods ==
    [ inr_upi       |-> [fee |-> 10, minimum_amount |-> M(1),  maximum_amount |-> M(100000)],
      inr_neft      |-> [fee |-> 20, minimum_amount |-> M(1),  maximum_amount |-> M(10000000)],
      binr_transfer |-> [fee |-> 10, minimum_amount |-> M(1),  maximum_amount |-> M(1000000)],
      bgt_transfer  |-> [fee |-> 15, minimum_amount |-> M(10), maximum_amount |-> M(1000000)] ]

ServiceMethods ==
    [ inr_upi          |-> [fee |-> 10, minimum_amount |-> M(10),     maximum_amount |-> M(100000)],
      inr_neft         |-> [fee |-> 20, minimum_amount |-> M(1),      maximum_amount |-> M(10000000)],
      binr_transfer    |-> [fee |-> 10, minimum_amount |-> M(1),      maximum_amount |-> M(1000000)],
      bgt_transfer     |-> [fee |-> 15, minimum_amount |-> Tenths(1), maximum_amount |-> M(1000)],
      mixed_settlement |-> [fee |-> 20, minimum_amount |-> M(50),     maximum_amount |-> M(500000)] ]

settlement_methods(impl) == IF impl = "engine" THEN EngineMethods ELSE ServiceMethods

supported_currencies == {"INR", "BINR", "BGT", "BST", "BPT"}

\* The five method codes of the external interface
MethodCodes == {"inr_upi", "inr_neft", "binr_transfer", "bgt_transfer", "mixed_settlement"}

\* settlement_methods is a plain object literal, so a lookup by key also
\* finds the members of Object.prototype: settlement_methods["constructor"]
\* is the (truthy) function Object, whose fee / minimum_amount /
\* maximum_amount are undefined.
ObjectPrototypeKeys == {"constructor"}

OwnMethod(impl, m) == m \in DOMAIN settlement_methods(impl)

\* truthiness of this.settlement_methods[m]
MethodLookup(impl, m) == OwnMethod(impl, m) \/ m \in ObjectPrototypeKeys

GstNum == 18

---------------------------------------------------------------------------
(* calculateFees *)

\* amount * config.fee  (undefined fee gives NaN)
FeeOf(impl, amount, m) ==
    IF OwnMethod(impl, m)
    THEN MScale(amount, settlement_methods(impl)[m].fee, 10000)
    ELSE NaN

\* UTPSettlementEngine.calculateFees
EngineCalculateFees(amount, m) ==
    IF ~MethodLookup("engine", m)
    THEN [ok |-> FALSE, error |-> "unknown_method"]
    ELSE LET settlement_fee == FeeOf("engine", amount, m)
             gst == MScale(settlement_fee, GstNum, 100)
             total_fee == MAdd(settlement_fee, gst)
         IN  [ok |-> TRUE,
              amount |-> amount,
              settlement_fee |-> settlement_fee,
              gst |-> gst,
              total_fee |-> total_fee,
              net_amount |-> MSub(amount, total_fee)]

\* UTPSettlementService.calculateFees: every field rounded on its own,
\* no net_amount in the result
ServiceCalculateFees(amount, m) ==
    IF ~MethodLookup("service", m)
    THEN [ok |-> FALSE, error |-> "unknown_method"]
    ELSE LET settlement_fee == FeeOf("service", amount, m)
             gst == MScale(settlement_fee, GstNum, 100)
             total_fee == MAdd(settlement_fee, gst)
         IN  [ok |-> TRUE,
              settlement_fee |-> Round2(settlement_fee),
              gst |-> Round2(gst),
              total_fee |-> Round2(total_fee)]

calculateFees(impl, amount, m) ==
    IF impl = "engine" THEN EngineCalculateFees(amount, m)
    ELSE ServiceCalculateFees(amount, m)

---------------------------------------------------------------------------
(* validateSettlementData: "ok" or the kind of the error thrown *)

\* a request: payment_id and merchant_id are strings ("" when absent),
\* account tells whether merchant_account_details is present
MissingField(impl, req) ==
    \/ req.payment_id = ""
    \/ req.merchant_id = ""
    \/ ~Truthy(req.amount)
    \/ req.currency = ""
    \/ req.settlement_method = ""
    \/ (impl = "engine" /\ ~req.account)

AmountOutOfRange(impl, req) ==
    /\ OwnMethod(impl, req.settlement_method)
    /\ LET c == settlement_methods(impl)[req.settlement_method]
       IN  MLt(req.amount, c.minimum_amount) \/ MLt(c.maximum_amount, req.amount)

validateSettlementData(impl, req) ==
    IF MissingField(impl, req) THEN "missing_field"
    ELSE IF ~MethodLookup(impl, req.settlement_method) THEN "unsupported_method"
    ELSE IF AmountOutOfRange(impl, req) THEN "amount_out_of_range"
    ELSE IF impl = "service" /\ req.currency \notin supported_currencies
         THEN "unsupported_currency"
    ELSE "ok"

---------------------------------------------------------------------------
(* Settlement records *)

NoDetails == [method |-> "null"]

\* the record built by executeSettlement before it is stored
EngineNewSettlement(id, req) ==
    LET settlement_fee == FeeOf("engine", req.amount, req.settlement_method)
        gst == MScale(settlement_fee, GstNum, 100)
        total_fee == MAdd(settlement_fee, gst)
    IN  [settlement_id |-> id,
         payment_id |-> req.payment_id,
         merchant_id |-> req.merchant_id,
         amount |-> req.amount,
         currency |-> req.currency,
         settlement_method |-> req.settlement_method,
         status |-> "pending",
         merchant_account |-> req.account,
         transaction_details |-> NoDetails,
         error_message |-> "",
         fees |-> [settlement_fee |-> settlement_fee,
                   gst |-> Zero,
                   total_fee |-> total_fee],
         net_amount |-> MSub(req.amount, total_fee)]

ServiceNewSettlement(id, req) ==
    LET fee_calculation == ServiceCalculateFees(req.amount, req.settlement_method)
    IN  [settlement_id |-> id,
         payment_id |-> req.payment_id,
         merchant_id |-> req.merchant_id,
         amount |-> req.amount,
         currency |-> req.currency,
         settlement_method |-> req.settlement_method,
         status |-> "pending",
         merchant_account |-> req.account,
         transaction_details |-> NoDetails,
         error_message |-> "",
         fees |-> [settlement_fee |-> fee_calculation.settlement_fee,
                   gst |-> fee_calculation.gst,
                   total_fee |-> fee_calculation.total_fee],
         net_amount |-> MSub(req.amount, fee_calculation.total_fee)]

NewSettlement(impl, id, req) ==
    IF impl = "engine" THEN EngineNewSettlement(id, req)
    ELSE ServiceNewSettlement(id, req)

---------------------------------------------------------------------------
(* processSettlement and the per-method routines *)

\* the switch falls to default: the throw happens before the first await
DispatchUnsupported(impl, s) ==
    IF impl = "engine"
    THEN s.settlement_method \notin
            {"inr_upi", "inr_neft", "binr_transfer", "bgt_transfer"}
    ELSE s.settlement_method \notin
            {"inr_upi", "inr_neft", "binr_transfer", "bgt_transfer", "mixed_settlement"}

\* processUPISettlement / processNEFTettlement / processBINRSettlement /
\* processBGTSettlement
EngineRoutine(s) ==
    CASE s.settlement_method = "inr_upi" ->
            [threw |-> FALSE, status |-> "completed",
             transaction_details |-> [method |-> "inr_upi", amount |-> s.net_amount]]
      [] s.settlement_method = "inr_neft" ->
            [threw |-> FALSE, status |-> "processing",
             transaction_details |-> [method |-> "inr_neft", amount |-> s.net_amount]]
      [] s.settlement_method = "binr_transfer" ->
            [threw |-> FALSE, status |-> "completed",
             transaction_details |-> [method |-> "binr_transfer", amount |-> s.net_amount]]
      [] s.settlement_method = "bgt_transfer" ->
            [threw |-> FALSE, status |-> "completed",
             transaction_details |-> [method |-> "bgt_transfer", amount |-> s.net_amount]]
      [] OTHER -> [threw |-> TRUE, error |-> "unsupported_method"]

\* processUPI / processNEFT / processBINR / processBGT read a property of
\* merchant_account and throw a TypeError when it is undefined;
\* processMixed does not touch merchant_account
ServiceRoutine(s) ==
    CASE s.settlement_method \in {"inr_upi", "inr_neft", "binr_transfer"} ->
            IF ~s.merchant_account
            THEN [threw |-> TRUE, error |-> "type_error"]
            ELSE [threw |-> FALSE, status |-> "completed",
                  transaction_details |-> [method |-> s.settlement_method]]
      [] s.settlement_method = "bgt_transfer" ->
            IF ~s.merchant_account
            THEN [threw |-> TRUE, error |-> "type_error"]
            ELSE [threw |-> FALSE, status |-> "completed",
                  transaction_details |-> [method |-> "bgt_transfer",
                                           token_amount |-> s.net_amount]]
      [] s.settlement_method = "mixed_settlement" ->
            [threw |-> FALSE, status |-> "completed",
             transaction_details |->
                 [method |-> "mixed",
                  binr_amount |-> Round2(MScale(s.net_amount, 5, 10)),
                  inr_amount |-> Round2(MScale(s.net_amount, 5, 10))]]
      [] OTHER -> [threw |-> TRUE, error |-> "unsupported_method"]

Routine(impl, s) == IF impl = "engine" THEN EngineRoutine(s) ELSE ServiceRoutine(s)

\* a catch block that records the message but leaves the status alone
MarkFailedKeepsStatus(s, error) == [s EXCEPT !.error_message = error]

\* the catch block of processSettlement
MarkFailed(s, error) == [s EXCEPT !.status = "failed", !.error_message = error]

\* what executeSettlement does with the result of processSettlement:
\* the service writes it into the record, the engine only returns it
EngineApplyResult(s, result) == s

ServiceApplyResult(s, result) ==
    [s EXCEPT !.status = result.status,
              !.transaction_details = result.transaction_details]

ApplyResult(impl, s, result) ==
    IF impl = "engine" THEN EngineApplyResult(s, result)
    ELSE ServiceApplyResult(s, result)

---------------------------------------------------------------------------
(* Price oracle: UTPConversionEngine / UTPConversionService *)

SupportedAssets == {"bgt", "bst", "bpt", "binr", "rwa"}

\* assets the model's callers ask for: two supported ones and one that is
\* not in the table
AssetInputs == {"bgt", "binr", "xau"}

CacheTtlMs == 30000

\* base_prices[asset_type] || 100.00
BasePrice(asset) ==
    CASE asset = "bgt"  -> M(5650)
      [] asset = "bst"  -> Norm(72, 500000)
      [] asset = "bpt"  -> M(3200)
      [] asset = "binr" -> M(1)
      [] asset = "rwa"  -> M(100)
      [] OTHER          -> M(100)

\* engine: a level name; service: a number, here in units of 1/10000
getVolatilityLevel(i, asset) ==
    IF i = "engine"
    THEN CASE asset = "bgt"  -> "low"
           [] asset = "bst"  -> "medium"
           [] asset = "bpt"  -> "high"
           [] asset = "binr" -> "minimal"
           [] asset = "rwa"  -> "medium"
           [] OTHER          -> "medium"
    ELSE CASE asset = "bgt"  -> "0.001"
           [] asset = "bst"  -> "0.003"
           [] asset = "bpt"  -> "0.005"
           [] asset = "binr" -> "0.0001"
           [] asset = "rwa"  -> "0.002"
           [] OTHER          -> "0.002"

\* engine: getPriceSource(asset_type); service: this.price_sources[asset_type]
getPriceSource(i, asset) ==
    CASE asset = "bgt"  -> IF i = "engine" THEN "LBMA/MMEX" ELSE "LBMA Gold Fix"
      [] asset = "bst"  -> IF i = "engine" THEN "LME" ELSE "LME Silver"
      [] asset = "bpt"  -> IF i = "engine" THEN "LPPM" ELSE "LPPM Platinum"
      [] asset = "binr" -> IF i = "engine" THEN "BINR Network" ELSE "Fixed Rate"
      [] asset = "rwa"  -> IF i = "engine" THEN "UTP Internal" ELSE "Dynamic Market"
      [] OTHER          -> IF i = "engine" THEN "UTP Internal" ELSE "undefined"

\* (Math.random() - 0.5) * 0.002 lies in [-0.001, 0.001); in units of
\* 1/10000 the model draws its two ends
FluctuationInputs == {-10, 9}

\* price * (1 + fluctuation) for every asset asked for and every fluctuation
\* drawn
AdjustedPrices ==
    [asset \in SupportedAssets \cup AssetInputs, fluctuation \in FluctuationInputs |->
        MMul(BasePrice(asset), Norm(0, (10000 + fluctuation) * 100))]

\* a fetch that multiplies by the fluctuation instead of by 1 + fluctuation
fetchPriceFromSourceFluctuationOnly(i, asset, fluctuation, t) ==
    LET adjusted_price == MMul(BasePrice(asset), Norm(0, fluctuation * 100))
    IN  [asset_type |-> asset,
         price |-> IF i = "engine" THEN adjusted_price ELSE Round2(adjusted_price),
         source |-> getPriceSource(i, asset),
         timestamp |-> t,
         volatility |-> getVolatilityLevel(i, asset),
         confidence |-> 95]

\* fetchPriceFromSource when it succeeds; the service rounds the price
fetchPriceFromSource(i, asset, fluctuation, t) ==
    LET adjusted_price == AdjustedPrices[asset, fluctuation]
    IN  [asset_type |-> asset,
         price |-> IF i = "engine" THEN adjusted_price ELSE Round2(adjusted_price),
         source |-> getPriceSource(i, asset),
         timestamp |-> t,
         volatility |-> getVolatilityLevel(i, asset),
         confidence |-> 95]

NoEntry == [asset_type |-> "none"]

HasEntry(e) == e # NoEntry

\* engine only
getCachedPrice(cache, asset) ==
    [cache[asset] EXCEPT !.source = "cache", !.confidence = 70]

EngineFallbackPrice(asset, t) ==
    [asset_type |-> asset, price |-> BasePrice(asset), source |-> "fallback",
     timestamp |-> t, volatility |-> "unknown", confidence |-> 50]

ServiceFallbackPrice(asset, t) ==
    [asset_type |-> asset, price |-> BasePrice(asset), source |-> "fallback",
     timestamp |-> t, volatility |-> getVolatilityLevel("service", asset),
     confidence |-> 60]

getFallbackPrice(i, asset, t) ==
    IF i = "engine" THEN EngineFallbackPrice(asset, t) ELSE ServiceFallbackPrice(asset, t)

\* cached_price && (Date.now() - cached_price.timestamp) < 30000
CacheFresh(cache, asset, t) ==
    /\ HasEntry(cache[asset])
    /\ t - cache[asset].timestamp < CacheTtlMs

\* what getPrice returns on a fresh cache entry
EngineCacheHit(entry) == entry

ServiceCacheHit(entry) == [entry EXCEPT !.source = "cache"]

CacheHit(i, entry) == IF i = "engine" THEN EngineCacheHit(entry) ELSE ServiceCacheHit(entry)

\* a catch block that never looks at the cache
EngineOnFetchErrorSkipsCache(cache, asset, t) == EngineFallbackPrice(asset, t)

\* the catch block of getPrice
EngineOnFetchError(cache, asset, t) ==
    IF HasEntry(cache[asset]) THEN getCachedPrice(cache, asset)
    ELSE EngineFallbackPrice(asset, t)

ServiceOnFetchError(cache, asset, t) == ServiceFallbackPrice(asset, t)

OnFetchError(i, cache, asset, t) ==
    IF i = "engine" THEN EngineOnFetchError(cache, asset, t)
    ELSE ServiceOnFetchError(cache, asset, t)

NoOut == [op |-> "none"]

Callers == 1..MaxCallers

Busy(c) == \E f \in fetching : f.caller = c

\* getPrice answered from the cache
GetPriceCached(c, asset) ==
    /\ ~Busy(c)
    /\ CacheFresh(price_cache, asset, now)
    /\ out' = [op |-> "getPrice", caller |-> c, asset |-> asset, path |-> "cache",
               threw |-> FALSE, quote |-> CacheHit(instance, price_cache[asset])]
    /\ UNCHANGED <<instance, workload, payVars, authVars, settlements, inflight, price_cache, now, fetching, convVars>>

\* a getPrice that starts no fetch while one for the asset is outstanding
GetPriceFetchUnlessPending(c, asset) ==
    /\ ~Busy(c)
    /\ ~CacheFresh(price_cache, asset, now)
    /\ ~\E f \in fetching : f.asset = asset
    /\ fetching' = fetching \cup {[caller |-> c, asset |-> asset]}
    /\ UNCHANGED <<instance, workload, payVars, authVars, settlements, inflight, out, price_cache, now, convVars>>

\* getPrice up to `await this.fetchPriceFromSource(asset_type)`
GetPriceFetch(c, asset) ==
    /\ ~Busy(c)
    /\ ~CacheFresh(price_cache, asset, now)
    /\ fetching' = fetching \cup {[caller |-> c, asset |-> asset]}
    /\ UNCHANGED <<instance, workload, payVars, authVars, settlements, inflight, out, price_cache, now, convVars>>

\* a getPrice that merges the fetched price into the entry it finds
FetchResolvedMerges(f, fluctuation) ==
    /\ f \in fetching
    /\ fetching' = fetching \ {f}
    /\ LET fresh_price == fetchPriceFromSource(instance, f.asset, fluctuation, now)
       IN  /\ price_cache' =
                  [price_cache EXCEPT ![f.asset] =
                      IF HasEntry(@) THEN [@ EXCEPT !.price = fresh_price.price]
                      ELSE fresh_price]
           /\ out' = [op |-> "getPrice", caller |-> f.caller, asset |-> f.asset,
                      path |-> "fetch", threw |-> FALSE, quote |-> fresh_price]
    /\ UNCHANGED <<instance, workload, payVars, authVars, settlements, inflight, now, convVars>>

\* the fetch resolves: cache the quote and return it
FetchResolved(f, fluctuation) ==
    /\ f \in fetching
    /\ fetching' = fetching \ {f}
    /\ LET fresh_price == fetchPriceFromSource(instance, f.asset, fluctuation, now)
       IN  /\ price_cache' = [price_cache EXCEPT ![f.asset] = fresh_price]
           /\ out' = [op |-> "getPrice", caller |-> f.caller, asset |-> f.asset,
                      path |-> "fetch", threw |-> FALSE, quote |-> fresh_price]
    /\ UNCHANGED <<instance, workload, payVars, authVars, settlements, inflight, now, convVars>>

\* the fetch rejects: the catch block answers
FetchRejected(f) ==
    /\ f \in fetching
    /\ fetching' = fetching \ {f}
    /\ out' = [op |-> "getPrice", caller |-> f.caller, asset |-> f.asset,
               path |-> "fetch_error", threw |-> FALSE,
               quote |-> OnFetchError(instance, price_cache, f.asset, now)]
    /\ UNCHANGED <<instance, workload, payVars, authVars, settlements, inflight, price_cache, now, convVars>>

Tick ==
    /\ now + TickMs <= MaxTime
    /\ now' = now + TickMs
    /\ UNCHANGED <<instance, workload, payVars, authVars, settlements, inflight, out, price_cache, fetching, convVars>>

---------------------------------------------------------------------------
(* Conversion: UTPConversionEngine.convert / getConversionRate and         *)
(* UTPConversionService.convertAmount                                      *)

\* a validation that forgets to compare the two assets
validateConversionSupportedOnly(from_asset, to_asset) ==
    IF from_asset \notin SupportedAssets THEN "unsupported_source"
    ELSE IF to_asset \notin SupportedAssets THEN "unsupported_target"
    ELSE "ok"

\* UTPConversionEngine.validateConversion: "ok" or the error thrown
validateConversion(from_asset, to_asset) ==
    IF from_asset \notin SupportedAssets THEN "unsupported_source"
    ELSE IF to_asset \notin SupportedAssets THEN "unsupported_target"
    ELSE IF from_asset = to_asset THEN "same_asset"
    ELSE "ok"

\* the call's options object: a record that has the field fee_rate, the
\* field slippage_protection, or neither
NoOptions == <<>>

DefaultFeeRate == Norm(0, 500)

\* options.fee_rate || 0.0005
conversion_fee_rate(options) ==
    IF "fee_rate" \in DOMAIN options /\ Truthy(options.fee_rate)
    THEN options.fee_rate
    ELSE DefaultFeeRate

\* this.slippage_protection && options.slippage_protection !== false
SlippageEnabled(options) ==
    ~("slippage_protection" \in DOMAIN options /\ options.slippage_protection = FALSE)

\* this.max_slippage
max_slippage == Norm(0, 2000)

\* volatility_multipliers[volatility] || 1.0, in tenths
VolatilityMultiplier(volatility) ==
    CASE volatility = "low"     -> 5
      [] volatility = "medium"  -> 10
      [] volatility = "high"    -> 15
      [] volatility = "unknown" -> 10
      [] OTHER                  -> 10

\* Math.random() lies in [0, 1); in thousandths the model draws 0 and 998
RandomInputs == {0, 998}

\* UTPConversionEngine.applySlippageProtection with Math.random() = random/1000
applySlippageProtection(conversion_rate, amount, volatility, random) ==
    LET max == MScale(max_slippage, VolatilityMultiplier(volatility), 10)
        potential_slippage == MScale(MScale(max, random, 1000), 5, 10)
    IN  [adjusted_rate |-> MMul(conversion_rate, MSub(One, potential_slippage)),
         slippage_amount |-> MMul(amount, potential_slippage)]

\* Math.min on two confidences
MinOf(a, b) == IF a < b THEN a ELSE b

\* the result object of calculateConversion
ConversionResult(from_price_data, to_price_data, amount, conversion_rate, conversion_fee_rate_, conversion_fee, actual_conversion_rate, slippage) ==
    [from_asset |-> [type |-> from_price_data.asset_type,
                     amount |-> amount,
                     price_per_unit |-> from_price_data.price],
     to_asset |-> [type |-> to_price_data.asset_type,
                   amount |-> MSub(MMul(amount, actual_conversion_rate), conversion_fee),
                   price_per_unit |-> to_price_data.price],
     conversion_rate |-> actual_conversion_rate,
     original_rate |-> conversion_rate,
     fees |-> [conversion_fee |-> conversion_fee,
               slippage |-> slippage,
               total_fee |-> MAdd(conversion_fee, slippage),
               fee_rate |-> MAdd(conversion_fee_rate_, MDiv(slippage, amount))],
     price_data |-> [from_price_source |-> from_price_data.source,
                     to_price_source |-> to_price_data.source,
                     price_confidence |-> MinOf(from_price_data.confidence,
                                                to_price_data.confidence)]]

\* calculateConversion from the base rate on
ConversionAtRate(from_price_data, to_price_data, amount, options, random, conversion_rate) ==
    IF SlippageEnabled(options)
    THEN ConversionResult(from_price_data, to_price_data, amount, conversion_rate,
            conversion_fee_rate(options), MMul(amount, conversion_fee_rate(options)),
            applySlippageProtection(conversion_rate, amount,
                                    to_price_data.volatility, random).adjusted_rate,
            applySlippageProtection(conversion_rate, amount,
                                    to_price_data.volatility, random).slippage_amount)
    ELSE ConversionResult(from_price_data, to_price_data, amount, conversion_rate,
            conversion_fee_rate(options), MMul(amount, conversion_fee_rate(options)),
            conversion_rate, Zero)

\* UTPConversionEngine.calculateConversion (conversion_id, market_impact and
\* the timestamps, which nothing else reads, are left out)
calculateConversion(from_price_data, to_price_data, amount, options, random) ==
    ConversionAtRate(from_price_data, to_price_data, amount, options, random,
                     MDiv(from_price_data.price, to_price_data.price))

\* UTPConversionService.getVolatilityLevel as a number
VolatilityNumber(asset) ==
    LET level == getVolatilityLevel("service", asset)
    IN  CASE level = "0.001"  -> Norm(0, 1000)
          [] level = "0.003"  -> Norm(0, 3000)
          [] level = "0.005"  -> Norm(0, 5000)
          [] level = "0.0001" -> Norm(0, 100)
          [] OTHER            -> Norm(0, 2000)

\* Math.min on two numbers
MMin(a, b) == IF MLt(b, a) THEN b ELSE a

\* UTPConversionService.calculateSlippage
calculateSlippage(from_asset, to_asset) ==
    LET avg_volatility ==
            MScale(MAdd(VolatilityNumber(from_asset), VolatilityNumber(to_asset)), 1, 2)
    IN  MMin(MScale(avg_volatility, 1, 10), max_slippage)

\* Math.round(x)
Round0(a) == IF IsNaN(a) THEN NaN
             ELSE M(a.u + (IF a.f >= 500000 THEN 1 ELSE 0))

ServiceFeeRate == Norm(0, 2500)

\* the same-asset branch of UTPConversionService.convertAmount
SameAssetResult(amount) ==
    [from_amount |-> amount,
     to_amount |-> amount,
     rate |-> One,
     fee |-> Zero,
     net_amount |-> amount,
     slippage |-> Zero]

\* the result object of convertAmount
ServiceResult(from_price, to_price, from_asset, to_asset, amount, rate, converted_amount, slippage, fee_amount, net_amount) ==
    [from_asset |-> from_asset,
     to_asset |-> to_asset,
     from_amount |-> amount,
     to_amount |-> Round2(converted_amount),
     rate |-> Round5(rate),
     slippage |-> MScale(Round0(MScale(slippage, 10000, 1)), 1, 100),
     fee_rate |-> MScale(ServiceFeeRate, 100, 1),
     fee |-> Round2(fee_amount),
     net_amount |-> Round2(net_amount),
     price_from |-> from_price.price,
     price_to |-> to_price.price]

\* convertAmount from the amount left after slippage on
ServiceAfterSlippage(from_price, to_price, from_asset, to_asset, amount, rate, converted_amount, slippage, after_slippage) ==
    ServiceResult(from_price, to_price, from_asset, to_asset, amount, rate,
                  converted_amount, slippage,
                  MMul(after_slippage, ServiceFeeRate),
                  MSub(after_slippage, MMul(after_slippage, ServiceFeeRate)))

\* convertAmount from the converted amount on
ServiceAtAmount(from_price, to_price, from_asset, to_asset, amount, rate, converted_amount, slippage) ==
    ServiceAfterSlippage(from_price, to_price, from_asset, to_asset, amount, rate,
                         converted_amount, slippage,
                         MSub(converted_amount, MMul(converted_amount, slippage)))

\* convertAmount from the rate on
ServiceAtRate(from_price, to_price, from_asset, to_asset, amount, rate) ==
    ServiceAtAmount(from_price, to_price, from_asset, to_asset, amount, rate,
                    MMul(amount, rate), calculateSlippage(from_asset, to_asset))

\* UTPConversionService.convertAmount once both prices are there
ServiceConversion(from_price, to_price, from_asset, to_asset, amount) ==
    ServiceAtRate(from_price, to_price, from_asset, to_asset, amount,
                  MDiv(from_price.price, to_price.price))

\* `conversion_${Date.now()}`
HistoryKey(t) == t

HistoryLimit == 10000

HasKey(history, key) == \E i \in DOMAIN history : history[i].key = key

\* the place of the key in the Map's insertion order
KeyIndex(history, key) == CHOOSE i \in DOMAIN history : history[i].key = key

\* UTPConversionEngine.storeConversionHistory: Map.set under the key of
\* this millisecond (a key already there keeps its place and gets the new
\* value), then the first key is deleted when the size is over the limit
storeConversionHistory(history, key, from_asset, to_asset, amount, conversion) ==
    LET entry == [key |-> key, from_asset |-> from_asset, to_asset |-> to_asset,
                  amount |-> amount, conversion |-> conversion]
        set == IF HasKey(history, key)
               THEN [history EXCEPT ![KeyIndex(history, key)] = entry]
               ELSE Append(history, entry)
    IN  IF Len(set) > HistoryLimit THEN Tail(set) ELSE set

\* a convertAmount without the same-asset branch
SameAssetPassthroughNever(from_asset, to_asset) == FALSE

\* `if (from_asset === to_asset)` at the top of convertAmount
SameAssetPassthrough(from_asset, to_asset) == from_asset = to_asset

\* a call with an outstanding convert / convertAmount / getConversionRate
ConvBusy(c) == \E cv \in converting : cv.call.caller = c

\* what the call's entry check says: the engine's convert validates, the
\* service's convertAmount only looks for the same asset, getConversionRate
\* checks nothing
EntryCheck(kind, from_asset, to_asset) ==
    IF kind = "rate" THEN "ok"
    ELSE IF instance = "engine" THEN validateConversion(from_asset, to_asset)
    ELSE IF SameAssetPassthrough(from_asset, to_asset) THEN "passthrough"
    ELSE "ok"

\* convert: validateConversion throws, the catch block re-throws
ConvertRejected(c, from_asset, to_asset) ==
    /\ ~ConvBusy(c)
    /\ EntryCheck("convert", from_asset, to_asset)
          \in {"unsupported_source", "unsupported_target", "same_asset"}
    /\ out' = [op |-> "convert", caller |-> c, ok |-> FALSE,
               error |-> EntryCheck("convert", from_asset, to_asset)]
    /\ UNCHANGED <<instance, workload, payVars, authVars, settlements, inflight, priceVars, convVars>>

\* convertAmount with from_asset === to_asset
ConvertPassthrough(c, from_asset, to_asset, amount) ==
    /\ ~ConvBusy(c)
    /\ EntryCheck("convert", from_asset, to_asset) = "passthrough"
    /\ out' = [op |-> "convert", caller |-> c, ok |-> TRUE, passthrough |-> TRUE,
               from_asset |-> from_asset, to_asset |-> to_asset, amount |-> amount,
               result |-> SameAssetResult(amount)]
    /\ UNCHANGED <<instance, workload, payVars, authVars, settlements, inflight, priceVars, convVars>>

\* convert / convertAmount / getConversionRate up to the end of the
\* synchronous part of `await this.getPrice(from_asset)`: a fresh cache
\* entry is the from price, otherwise the fetch has been started
ConvertBegin(c, kind, from_asset, to_asset, amount, options) ==
    /\ ~ConvBusy(c)
    /\ calls < MaxConvCalls
    /\ calls' = calls + 1
    /\ kind = "rate" => instance = "engine"
    /\ EntryCheck(kind, from_asset, to_asset) = "ok"
    /\ LET call == [caller |-> c, kind |-> kind, from_asset |-> from_asset,
                    to_asset |-> to_asset, amount |-> amount, options |-> options]
       IN  converting' = converting \cup
              {IF CacheFresh(price_cache, from_asset, now)
               THEN [call |-> call, stage |-> "got_from",
                     from_price |-> CacheHit(instance, price_cache[from_asset])]
               ELSE [call |-> call, stage |-> "fetch_from", from_price |-> NoEntry]}
    /\ UNCHANGED <<instance, workload, payVars, authVars, settlements, inflight, out, priceVars,
                   conversion_history>>

\* the fetch of the from price resolves: getPrice caches and returns it
ConvertFromResolved(cv, fluctuation) ==
    /\ cv \in converting
    /\ cv.stage = "fetch_from"
    /\ LET fresh_price == fetchPriceFromSource(instance, cv.call.from_asset, fluctuation, now)
       IN  /\ price_cache' = [price_cache EXCEPT ![cv.call.from_asset] = fresh_price]
           /\ converting' = (converting \ {cv}) \cup
                  {[cv EXCEPT !.stage = "got_from", !.from_price = fresh_price]}
    /\ UNCHANGED <<instance, workload, payVars, authVars, settlements, inflight, out, now, fetching,
                   conversion_history, calls>>

\* the fetch of the from price rejects: the catch block of getPrice answers
ConvertFromRejected(cv) ==
    /\ cv \in converting
    /\ cv.stage = "fetch_from"
    /\ converting' = (converting \ {cv}) \cup
          {[cv EXCEPT !.stage = "got_from",
                      !.from_price = OnFetchError(instance, price_cache,
                                                  cv.call.from_asset, now)]}
    /\ UNCHANGED <<instance, workload, payVars, authVars, settlements, inflight, out, priceVars,
                   conversion_history, calls>>

\* `await this.getPrice(to_asset)` finds no fresh cache entry and starts
\* the fetch
ConvertToFetch(cv) ==
    /\ cv \in converting
    /\ cv.stage = "got_from"
    /\ ~CacheFresh(price_cache, cv.call.to_asset, now)
    /\ converting' = (converting \ {cv}) \cup {[cv EXCEPT !.stage = "fetch_to"]}
    /\ UNCHANGED <<instance, workload, payVars, authVars, settlements, inflight, out, priceVars,
                   conversion_history, calls>>

\* convert hands over its result: it is stored in the history and returned
ConvertDeliver(cv, conversion) ==
    /\ conversion_history' =
          storeConversionHistory(conversion_history, HistoryKey(now),
                                 cv.call.from_asset, cv.call.to_asset,
                                 cv.call.amount, conversion)
    /\ out' = [op |-> "convert", caller |-> cv.call.caller, ok |-> TRUE,
               passthrough |-> FALSE,
               from_asset |-> cv.call.from_asset, to_asset |-> cv.call.to_asset,
               amount |-> cv.call.amount, options |-> cv.call.options,
               result |-> conversion]

\* the rest of the call once the to price is there: getConversionRate
\* returns the rate; convert calculates, stores the conversion in the
\* history and returns it; convertAmount calculates and returns
ConvertFinish(cv, to_price, random) ==
    /\ converting' = converting \ {cv}
    /\ IF cv.call.kind = "rate"
       THEN /\ out' = [op |-> "getConversionRate", caller |-> cv.call.caller, ok |-> TRUE,
                       from_asset |-> cv.call.from_asset, to_asset |-> cv.call.to_asset,
                       rate |-> MDiv(cv.from_price.price, to_price.price),
                       from_price |-> cv.from_price, to_price |-> to_price]
            /\ conversion_history' = conversion_history
       ELSE IF instance = "engine"
       THEN ConvertDeliver(cv, calculateConversion(cv.from_price, to_price,
                                                   cv.call.amount, cv.call.options, random))
       ELSE /\ conversion_history' = conversion_history
            /\ out' = [op |-> "convert", caller |-> cv.call.caller, ok |-> TRUE,
                       passthrough |-> FALSE,
                       from_asset |-> cv.call.from_asset,
                       to_asset |-> cv.call.to_asset,
                       amount |-> cv.call.amount, options |-> cv.call.options,
                       result |-> ServiceConversion(cv.from_price, to_price,
                                                    cv.call.from_asset, cv.call.to_asset,
                                                    cv.call.amount)]

\* `await this.getPrice(to_asset)` is answered from the cache
ConvertToCached(cv, random) ==
    /\ cv \in converting
    /\ cv.stage = "got_from"
    /\ CacheFresh(price_cache, cv.call.to_asset, now)
    /\ ConvertFinish(cv, CacheHit(instance, price_cache[cv.call.to_asset]), random)
    /\ UNCHANGED <<instance, workload, payVars, authVars, settlements, inflight, priceVars, calls>>

\* the fetch of the to price resolves
ConvertToResolved(cv, fluctuation, random) ==
    /\ cv \in converting
    /\ cv.stage = "fetch_to"
    /\ LET fresh_price == fetchPriceFromSource(instance, cv.call.to_asset, fluctuation, now)
       IN  /\ price_cache' = [price_cache EXCEPT ![cv.call.to_asset] = fresh_price]
           /\ ConvertFinish(cv, fresh_price, random)
    /\ UNCHANGED <<instance, workload, payVars, authVars, settlements, inflight, now, fetching, calls>>

\* the fetch of the to price rejects
ConvertToRejected(cv, random) ==
    /\ cv \in converting
    /\ cv.stage = "fetch_to"
    /\ ConvertFinish(cv, OnFetchError(instance, price_cache, cv.call.to_asset, now), random)
    /\ UNCHANGED <<instance, workload, payVars, authVars, settlements, inflight, priceVars, calls>>

\* the asset pair, amount and options the calls of a conversion run carry
ConvAmountInputs == {M(100)}

OptionInputs ==
    {NoOptions, [fee_rate |-> Zero], [fee_rate |-> Norm(0, 1000)],
     [slippage_protection |-> FALSE]}

\* two pairs of distinct supported assets, a same-asset pair, a pair with
\* an unsupported source and one with an unsupported target
PairInputs ==
    {<<"bgt", "binr">>, <<"binr", "bgt">>, <<"bgt", "bgt">>,
     <<"xau", "binr">>, <<"bgt", "xau">>}

ConvRequest(pair, amount, options) ==
    [from_asset |-> pair[1], to_asset |-> pair[2], amount |-> amount, options |-> options]

\* every pair without options and, on the engine (convertAmount takes no
\* options), one pair with each of the options
ConvWorkloads(i) ==
    { ConvRequest(p, a, NoOptions) : p \in PairInputs, a \in ConvAmountInputs }
    \cup (IF i = "engine"
          THEN { ConvRequest(<<"bgt", "binr">>, a, o) :
                    a \in ConvAmountInputs, o \in OptionInputs }
          ELSE {})

\* the cache of an instance that has not been asked for a price yet
EmptyCache == [a \in AssetInputs |-> NoEntry]

\* the cache after getPrice has fetched every asset at time 0
WarmCache == [a \in AssetInputs |-> fetchPriceFromSource(instance, a, -10, 0)]

ConvCallers == 1..MaxConverting

\* in the run of the same-asset pair the pair may be of any asset, and the
\* amount zero, a paisa or the run's amount
SameAssetInputs == IF workload.from_asset = workload.to_asset THEN AssetInputs ELSE {}

PassthroughAmountInputs == {Zero, Norm(0, 10000), workload.amount}

\* convert (convertAmount on the service) in every run; getConversionRate,
\* which takes no options, in the runs without options
KindInputs == IF workload.options = NoOptions THEN {"convert", "rate"} ELSE {"convert"}

\* Math.random() is drawn only where applySlippageProtection runs
RandomsFor(cv) ==
    IF instance = "engine" /\ cv.call.kind = "convert" /\ SlippageEnabled(cv.call.options)
    THEN RandomInputs ELSE {0}

ConvInit ==
    /\ instance \in Impl
    /\ workload \in ConvWorkloads(instance)
    /\ settlements = <<>>
    /\ inflight = {}
    /\ out = NoOut
    /\ price_cache \in {EmptyCache, WarmCache}
    /\ now = 0
    /\ fetching = {}
    /\ conversion_history = <<>>
    /\ converting = {}
    /\ calls = 0
    /\ NoPayments
    /\ NoAccounts

ConvNext ==
    \/ \E c \in ConvCallers : ConvertRejected(c, workload.from_asset, workload.to_asset)
    \/ \E c \in ConvCallers, x \in SameAssetInputs, a \in PassthroughAmountInputs :
          ConvertPassthrough(c, x, x, a)
    \/ \E c \in ConvCallers, k \in KindInputs :
          ConvertBegin(c, k, workload.from_asset, workload.to_asset,
                       workload.amount, workload.options)
    \/ \E cv \in converting, d \in FluctuationInputs : ConvertFromResolved(cv, d)
    \/ \E cv \in converting : ConvertFromRejected(cv)
    \/ \E cv \in converting : ConvertToFetch(cv)
    \/ \E cv \in converting : \E r \in RandomsFor(cv) : ConvertToCached(cv, r)
    \/ \E cv \in converting, d \in FluctuationInputs :
          \E r \in RandomsFor(cv) : ConvertToResolved(cv, d, r)
    \/ \E cv \in converting : \E r \in RandomsFor(cv) : ConvertToRejected(cv, r)
    \/ Tick

ConvSpec == ConvInit /\ [][ConvNext]_vars

\* the conversion every entry of a long-running engine's history holds in
\* the history runs: bgt to binr at the prices of the filled cache
BacklogConversion ==
    calculateConversion(fetchPriceFromSource("engine", "bgt", -10, 0),
                        fetchPriceFromSource("engine", "binr", -10, 0),
                        M(100), NoOptions, 0)

\* the history after n conversions stored in n consecutive milliseconds,
\* the latest of them `lag` milliseconds before time 0
Backlog(n, lag) ==
    SubSeq([i \in 1..n |->
              [key |-> HistoryKey(0 - lag - (n - i)), from_asset |-> "bgt",
               to_asset |-> "binr", amount |-> M(100),
               conversion |-> BacklogConversion]], 1, n)

\* the latest stored conversion happened in the millisecond the run starts
\* in, or in the one before
LagInputs == {0, 1}

\* an engine whose history is full, serving one client that converts bgt
\* to binr
HistoryInit ==
    /\ instance = "engine"
    /\ workload = ConvRequest(<<"bgt", "binr">>, M(100), NoOptions)
    /\ settlements = <<>>
    /\ inflight = {}
    /\ out = NoOut
    /\ price_cache \in {EmptyCache, WarmCache}
    /\ now = 0
    /\ fetching = {}
    /\ conversion_history \in {Backlog(HistoryLimit, lag) : lag \in LagInputs}
    /\ converting = {}
    /\ calls = 0
    /\ NoPayments
    /\ NoAccounts

HistoryNext ==
    \/ ConvertBegin(1, "convert", workload.from_asset, workload.to_asset,
                    workload.amount, workload.options)
    \/ \E cv \in converting, d \in FluctuationInputs : ConvertFromResolved(cv, d)
    \/ \E cv \in converting : ConvertFromRejected(cv)
    \/ \E cv \in converting : ConvertToFetch(cv)
    \/ \E cv \in converting : \E r \in RandomsFor(cv) : ConvertToCached(cv, r)
    \/ \E cv \in converting, d \in FluctuationInputs :
          \E r \in RandomsFor(cv) : ConvertToResolved(cv, d, r)
    \/ \E cv \in converting : \E r \in RandomsFor(cv) : ConvertToRejected(cv, r)
    \/ Tick

HistorySpec == HistoryInit /\ [][HistoryNext]_vars

\* the quotes getPrice can hand to calculateConversion for an asset: a
\* fetched one, or the fallback
QuoteInputs(asset) ==
    {fetchPriceFromSource("engine", asset, d, 0) : d \in FluctuationInputs}
    \cup {getFallbackPrice("engine", asset, 0)}

\* calculateConversion's arguments: quotes of two different supported
\* assets, the amount, and slippage protection left on or switched off
CalculationInputs ==
    {[from_price_data |-> f, to_price_data |-> t, amount |-> a, options |-> o] :
        f \in UNION {QuoteInputs(x) : x \in SupportedAssets},
        t \in UNION {QuoteInputs(x) : x \in SupportedAssets},
        a \in ConvAmountInputs,
        o \in {NoOptions, [slippage_protection |-> FALSE]}}

\* calculateConversion called on the run's arguments
CalculateConversionCall(random) ==
    /\ out' = [op |-> "calculateConversion",
               result |-> calculateConversion(workload.from_price_data,
                                              workload.to_price_data,
                                              workload.amount, workload.options, random)]
    /\ UNCHANGED <<instance, workload, payVars, authVars, settlements, inflight, priceVars, convVars>>

CalculationInit ==
    /\ instance = "engine"
    /\ workload \in {w \in CalculationInputs :
                        w.from_price_data.asset_type # w.to_price_data.asset_type}
    /\ settlements = <<>>
    /\ inflight = {}
    /\ out = NoOut
    /\ price_cache = EmptyCache
    /\ now = 0
    /\ fetching = {}
    /\ conversion_history = <<>>
    /\ converting = {}
    /\ calls = 0
    /\ NoPayments
    /\ NoAccounts

CalculationNext == \E random \in RandomInputs : CalculateConversionCall(random)

CalculationSpec == CalculationInit /\ [][CalculationNext]_vars

---------------------------------------------------------------------------
(* Inputs of the settlement operations *)

\* an amount whose fee does not come out in whole paise
OddAmount == M(14)

\* an amount inside the limits of every method that has limits
TypicalAmount == M(1000)

\* an amount inside the limits of mixed_settlement whose net amount is an
\* odd number of paise
MixedOddAmount == M(55)

\* the boundary amounts of a configured method (and OddAmount for inr_upi,
\* MixedOddAmount for mixed_settlement);
\* TypicalAmount for a method the instance has no limits for
AmountInputs(i, m) ==
    IF OwnMethod(i, m)
    THEN LET c == settlement_methods(i)[m]
         IN  {MSub(c.minimum_amount, One), c.minimum_amount,
              c.maximum_amount, MAdd(c.maximum_amount, One)}
             \cup (IF m = "inr_upi" THEN {OddAmount} ELSE {})
             \cup (IF m = "mixed_settlement" THEN {MixedOddAmount} ELSE {})
    ELSE {TypicalAmount}

MethodInputs == MethodCodes \cup ObjectPrototypeKeys \cup {"paypal"}

BaseRequest(m, a) ==
    [payment_id |-> "pay_1", merchant_id |-> "mer_1", amount |-> a,
     currency |-> "INR", settlement_method |-> m, account |-> TRUE]

\* the smallest amount the instance accepts for m
LeastAmount(i, m) ==
    IF OwnMethod(i, m) THEN settlement_methods(i)[m].minimum_amount ELSE TypicalAmount

\* requests naming method m: one at each boundary amount, and one with
\* each single defect: no payment_id, no merchant_account_details, a
\* currency outside supported_currencies
Requests(i, m) ==
    { BaseRequest(m, a) : a \in AmountInputs(i, m) }
    \cup { [BaseRequest(m, LeastAmount(i, m)) EXCEPT !.payment_id = ""],
           [BaseRequest(m, LeastAmount(i, m)) EXCEPT !.account = FALSE],
           [BaseRequest(m, LeastAmount(i, m)) EXCEPT !.currency = "USD"] }


---------------------------------------------------------------------------
(* Settlement operations *)

\* executeSettlement, validation throws: nothing was created
ExecuteSettlementRejected(req) ==
    /\ validateSettlementData(instance, req) # "ok"
    /\ out' = [op |-> "executeSettlement", ok |-> FALSE,
               error |-> validateSettlementData(instance, req)]
    /\ UNCHANGED <<instance, workload, payVars, authVars, settlements, inflight, priceVars, convVars>>

\* an id generator that hands out the id of the latest record again
ReusedSettlementId(store) == IF Len(store) = 0 THEN 1 ELSE Len(store)

\* uuidv4(): an id no stored record has
NewSettlementId(store) == Len(store) + 1

\* Map.set: insert at the end, or replace in place
MapSet(store, id, s) ==
    IF id \in DOMAIN store THEN [store EXCEPT ![id] = s] ELSE Append(store, s)

\* executeSettlement up to `await this.processSettlement(settlement)`.
\* The record is stored as pending; when the switch of processSettlement
\* falls to default the catch block has already marked it failed before
\* the call is suspended.
ExecuteSettlementStart(req) ==
    /\ validateSettlementData(instance, req) = "ok"
    /\ calls < MaxCalls
    /\ calls' = calls + 1
    /\ LET settlement_id == NewSettlementId(settlements)
           settlement == NewSettlement(instance, settlement_id, req)
           stored == IF DispatchUnsupported(instance, settlement)
                     THEN MarkFailed(settlement, "unsupported_method")
                     ELSE settlement
       IN  /\ settlements' = MapSet(settlements, settlement_id, stored)
           /\ inflight' = inflight \cup {settlement_id}
    /\ UNCHANGED <<instance, workload, payVars, authVars, out, priceVars, conversion_history, converting>>

\* the rest of executeSettlement: the routine finishes or throws, the
\* result is applied and returned, or the error is re-thrown
ExecuteSettlementReturn(id) ==
    /\ id \in inflight
    /\ inflight' = inflight \ {id}
    /\ LET settlement == settlements[id]
           result == Routine(instance, settlement)
       IN  IF DispatchUnsupported(instance, settlement)
           THEN /\ settlements' = settlements
                /\ out' = [op |-> "executeSettlement", ok |-> FALSE,
                           error |-> "dispatch_failed", settlement_id |-> id]
           ELSE IF result.threw
           THEN /\ settlements' =
                      MapSet(settlements, id, MarkFailed(settlement, result.error))
                /\ out' = [op |-> "executeSettlement", ok |-> FALSE,
                           error |-> "dispatch_failed", settlement_id |-> id]
           ELSE /\ settlements' =
                      MapSet(settlements, id, ApplyResult(instance, settlement, result))
                /\ out' = [op |-> "executeSettlement", ok |-> TRUE,
                           settlement_id |-> id,
                           status |-> result.status,
                           transaction_details |-> result.transaction_details,
                           fees |-> settlement.fees,
                           net_amount |-> settlement.net_amount]
    /\ UNCHANGED <<instance, workload, payVars, authVars, priceVars, convVars>>

\* getSettlementStatus (engine) / getSettlement (service)
GetSettlementStatus(id) ==
    /\ out' = IF id \in DOMAIN settlements
              THEN [op |-> "getSettlementStatus", ok |-> TRUE,
                    settlement |-> settlements[id]]
              ELSE [op |-> "getSettlementStatus", ok |-> FALSE,
                    settlement_id |-> id]
    /\ UNCHANGED <<instance, workload, payVars, authVars, settlements, inflight, priceVars, convVars>>

\* getSettlementHistory (engine) / getMerchantSettlements (service):
\* the ids of the merchant's records (their order, by created_at, is
\* not modelled)
GetSettlementHistory(merchant_id) ==
    /\ out' = [op |-> "getSettlementHistory",
               ids |-> {id \in DOMAIN settlements :
                            settlements[id].merchant_id = merchant_id}]
    /\ UNCHANGED <<instance, workload, payVars, authVars, settlements, inflight, priceVars, convVars>>

FeeAmountInputs == {M(14), M(1000)}

CalculateFeesCall(amount, m) ==
    /\ out' = [op |-> "calculateFees", amount |-> amount, method |-> m,
               result |-> calculateFees(instance, amount, m)]
    /\ UNCHANGED <<instance, workload, payVars, authVars, settlements, inflight, priceVars, convVars>>

SettleInit ==
    /\ instance \in Impl
    /\ workload \in MethodInputs
    /\ settlements = <<>>
    /\ inflight = {}
    /\ out = NoOut
    /\ price_cache = [a \in AssetInputs |-> NoEntry]
    /\ now = 0
    /\ fetching = {}
    /\ conversion_history = <<>>
    /\ converting = {}
    /\ calls = 0
    /\ NoPayments
    /\ NoAccounts

SettleNext ==
    \/ \E req \in Requests(instance, workload) : ExecuteSettlementRejected(req)
    \/ \E req \in Requests(instance, workload) : ExecuteSettlementStart(req)
    \/ \E id \in inflight : ExecuteSettlementReturn(id)
    \/ \E id \in 1..(MaxCalls + 1) : GetSettlementStatus(id)
    \/ \E mer \in {"mer_1", "mer_2"} : GetSettlementHistory(mer)
    \/ \E a \in FeeAmountInputs : CalculateFeesCall(a, workload)

SettleSpec == SettleInit /\ [][SettleNext]_vars

\* the record of an executeSettlement call that has returned
SettledRecord(i, id, req) ==
    LET settlement == NewSettlement(i, id, req)
    IN  ApplyResult(i, settlement, Routine(i, settlement))

\* the store after n executeSettlement calls of a UPI settlement
StoredSettlements(i, n) ==
    SubSeq([id \in 1..n |->
              SettledRecord(i, id, BaseRequest("inr_upi", TypicalAmount))], 1, n)

\* the requests of the store runs: a valid one and one without payment_id
StoreRequests ==
    {BaseRequest("inr_upi", TypicalAmount),
     [BaseRequest("inr_upi", TypicalAmount) EXCEPT !.payment_id = ""]}

\* an instance that has executed 9,999 settlements
StoreInit ==
    /\ instance \in Impl
    /\ workload = "inr_upi"
    /\ settlements = StoredSettlements(instance, 9999)
    /\ inflight = {}
    /\ out = NoOut
    /\ price_cache = [a \in AssetInputs |-> NoEntry]
    /\ now = 0
    /\ fetching = {}
    /\ conversion_history = <<>>
    /\ converting = {}
    /\ calls = 0
    /\ NoPayments
    /\ NoAccounts

StoreNext ==
    \/ \E req \in StoreRequests : ExecuteSettlementRejected(req)
    \/ \E req \in StoreRequests : ExecuteSettlementStart(req)
    \/ \E id \in inflight : ExecuteSettlementReturn(id)
    \/ \E id \in {1, 9999, 10000, 10001} : GetSettlementStatus(id)
    \/ \E mer \in {"mer_1", "mer_2"} : GetSettlementHistory(mer)

StoreSpec == StoreInit /\ [][StoreNext]_vars

PriceInit ==
    /\ instance \in Impl
    /\ workload = "inr_upi"
    /\ settlements = <<>>
    /\ inflight = {}
    /\ out = NoOut
    /\ price_cache = [a \in AssetInputs |-> NoEntry]
    /\ now = 0
    /\ fetching = {}
    /\ conversion_history = <<>>
    /\ converting = {}
    /\ calls = 0
    /\ NoPayments
    /\ NoAccounts

PriceNext ==
    \/ \E c \in Callers, a \in AssetInputs : GetPriceCached(c, a)
    \/ \E c \in Callers, a \in AssetInputs : GetPriceFetch(c, a)
    \/ \E f \in fetching, d \in FluctuationInputs : FetchResolved(f, d)
    \/ \E f \in fetching : FetchRejected(f)
    \/ Tick

PriceSpec == PriceInit /\ [][PriceNext]_vars

---------------------------------------------------------------------------
(* Settlement properties *)

Terminal(s) == s.status \in {"completed", "failed"}

ReturnedOk == out.op = "executeSettlement" /\ out.ok

\* C1: after executeSettlement has returned successfully, the record stored
\* under the returned settlement_id is no longer pending: its status is the
\* returned status and its transaction_details is the returned receipt.
C1_StoredMatchesReturned ==
    ReturnedOk =>
        /\ out.settlement_id \in DOMAIN settlements
        /\ settlements[out.settlement_id].status # "pending"
        /\ settlements[out.settlement_id].status = out.status
        /\ settlements[out.settlement_id].transaction_details = out.transaction_details

\* C2: when the method routine throws after the pending record was stored,
\* the record ends failed with an error_message, stays in the store, and
\* executeSettlement throws instead of returning a result.
C2_DispatchFailureRecorded ==
    /\ \A id \in DOMAIN settlements :
          (id \notin inflight /\ Routine(instance, settlements[id]).threw) =>
              /\ settlements[id].status = "failed"
              /\ settlements[id].error_message # ""
    /\ (out.op = "executeSettlement" /\ "settlement_id" \in DOMAIN out) =>
          /\ out.settlement_id \in DOMAIN settlements
          /\ Routine(instance, settlements[out.settlement_id]).threw => ~out.ok

C2_Witness ==
    /\ out.op = "executeSettlement"
    /\ ~out.ok
    /\ out.error = "dispatch_failed"
    /\ settlements[out.settlement_id].status = "failed"
    /\ settlements[out.settlement_id].error_message = "type_error"

\* what the claim C3 calls a request rejected by validation
InvalidByContract(i, req) ==
    \/ MissingField(i, req)
    \/ ~OwnMethod(i, req.settlement_method)
    \/ AmountOutOfRange(i, req)

\* C3: an executeSettlement call with a missing required field, a method
\* outside the configured set or an amount outside the method's limits
\* leaves the settlements store exactly as it was.
C3_RejectedBeforeMutation ==
    [][\A req \in Requests(instance, workload) :
          (/\ InvalidByContract(instance, req)
           /\ (ExecuteSettlementRejected(req) \/ ExecuteSettlementStart(req)))
          => settlements' = settlements]_vars

\* C4: a record that is completed or failed is never changed or removed by
\* any later operation, and a new executeSettlement call leaves every
\* existing record as it is.
C4_TerminalIsFinal ==
    [][/\ \A id \in DOMAIN settlements :
             Terminal(settlements[id]) =>
                 /\ id \in DOMAIN settlements'
                 /\ settlements'[id] = settlements[id]
       /\ Len(settlements') > Len(settlements) =>
             SubSeq(settlements', 1, Len(settlements)) = settlements]_vars

C4_Witness ==
    /\ Len(settlements) >= 2
    /\ Terminal(settlements[1])
    /\ inflight = {}
    /\ settlements[2].status \in {"completed", "failed"}

\* C5: for every configured method, a well-formed request at exactly
\* minimum_amount or maximum_amount is accepted, and one unit below the
\* minimum or above the maximum it is rejected with the amount-out-of-range
\* error and no other.
C5_BoundaryAmounts ==
    [][OwnMethod(instance, workload) =>
          LET c == settlement_methods(instance)[workload]
          IN  /\ \A a \in {c.minimum_amount, c.maximum_amount} :
                    ~ExecuteSettlementRejected(BaseRequest(workload, a))
              /\ \A a \in {MSub(c.minimum_amount, One), MAdd(c.maximum_amount, One)} :
                    /\ ~ExecuteSettlementStart(BaseRequest(workload, a))
                    /\ ExecuteSettlementRejected(BaseRequest(workload, a))
                          => out'.error = "amount_out_of_range"]_vars

\* the limits the interface documents for a method code (the service's
\* table has all five)
InDocumentedRange(req) ==
    /\ req.settlement_method \in DOMAIN ServiceMethods
    /\ ~AmountOutOfRange("service", req)

WellFormed(req) ==
    /\ req.payment_id # ""
    /\ req.merchant_id # ""
    /\ Truthy(req.amount)
    /\ req.currency \in supported_currencies
    /\ req.account

\* C6: each of the five method codes is accepted by both implementations:
\* a well-formed request with an in-range amount is not rejected, is
\* dispatched and returns a receipt; any other method code ends in an error.
C6_FiveMethods ==
    [][/\ \A req \in Requests(instance, workload) :
             (/\ req.settlement_method \in MethodCodes
              /\ WellFormed(req)
              /\ InDocumentedRange(req)
              /\ ~AmountOutOfRange(instance, req))
             => ~ExecuteSettlementRejected(req)
       /\ \A id \in inflight :
             ExecuteSettlementReturn(id) =>
                 IF /\ settlements[id].settlement_method \in MethodCodes
                    /\ settlements[id].merchant_account
                 THEN out'.ok /\ out'.transaction_details # NoDetails
                 ELSE settlements[id].settlement_method \notin MethodCodes => ~out'.ok
       /\ \A req \in Requests(instance, workload) :
             (req.settlement_method \notin MethodCodes /\ ExecuteSettlementRejected(req))
             => ~out'.ok]_vars

\* C7: in every stored record total_fee = settlement_fee + gst, the stored
\* gst is 18% of the stored settlement_fee, and net_amount = amount -
\* total_fee.
C7_StoredFeesAddUp ==
    \A id \in DOMAIN settlements :
        LET s == settlements[id]
        IN  /\ MEq(s.fees.total_fee, MAdd(s.fees.settlement_fee, s.fees.gst))
            /\ MEq(s.fees.gst, MScale(s.fees.settlement_fee, GstNum, 100))
            /\ MEq(s.net_amount, MSub(s.amount, s.fees.total_fee))

\* C8: for a configured method calculateFees returns settlement_fee =
\* amount * fee_rate, tax = 0.18 * settlement_fee, total_fee =
\* settlement_fee + tax and net_amount = amount - total_fee.
C8_CalculateFees ==
    (/\ out.op = "calculateFees"
     /\ OwnMethod(instance, out.method)) =>
        LET r == out.result
            fee == MScale(out.amount, settlement_methods(instance)[out.method].fee, 10000)
            tax == MScale(fee, GstNum, 100)
        IN  /\ r.ok
            /\ MEq(r.settlement_fee, fee)
            /\ MEq(r.gst, tax)
            /\ MEq(r.total_fee, MAdd(fee, tax))
            /\ "net_amount" \in DOMAIN r
            /\ MEq(r.net_amount, MSub(out.amount, MAdd(fee, tax)))

---------------------------------------------------------------------------
(* Price oracle properties *)

AfterFetchError == out.op = "getPrice" /\ out.path = "fetch_error"

C10_CacheWindow ==
    [][\A c \in Callers, a \in AssetInputs :
          (GetPriceCached(c, a) \/ GetPriceFetch(c, a)) =>
              IF /\ HasEntry(price_cache[a])
                 /\ now - price_cache[a].timestamp < 30000
              THEN /\ fetching' = fetching
                   /\ out'.op = "getPrice"
                   /\ out'.quote.price = price_cache[a].price
                   /\ out'.quote.source = "cache"
              ELSE [caller |-> c, asset |-> a] \in fetching']_vars

\* every quote the source or the fallback table gives for one of the five
\* supported assets has price > 0
SourcePricesPositive ==
    \A i \in Impl, a \in SupportedAssets :
        /\ MLt(Zero, getFallbackPrice(i, a, 0).price)
        /\ \A d \in FluctuationInputs :
              MLt(Zero, fetchPriceFromSource(i, a, d, 0).price)

\* C11: for every supported asset the quote getPrice returns, on the cache
\* path, after a fetch and after a failed fetch, and every quote the cache
\* holds, has price > 0; so has every quote the source or the fallback
\* table can give for any of the five assets.
C11_PricePositive ==
    /\ \A a \in SupportedAssets \cap DOMAIN price_cache :
          HasEntry(price_cache[a]) => MLt(Zero, price_cache[a].price)
    /\ (out.op = "getPrice" /\ out.asset \in SupportedAssets) =>
          MLt(Zero, out.quote.price)
    /\ SourcePricesPositive

\* a supported asset answered by the fallback after its cache entry expired
C11_Witness ==
    /\ AfterFetchError
    /\ out.asset = "binr"
    /\ out.quote.source = "fallback"
    /\ HasEntry(price_cache["binr"])
    /\ HasEntry(price_cache["bgt"])
    /\ now - price_cache["binr"].timestamp >= CacheTtlMs

---------------------------------------------------------------------------
(* Conversion properties *)

\* an asset pair that convert must refuse
InvalidPair(from_asset, to_asset) ==
    \/ from_asset \notin SupportedAssets
    \/ to_asset \notin SupportedAssets
    \/ from_asset = to_asset

\* C12: the engine's convert with an unsupported asset or with from_asset
\* equal to to_asset fails with an error, and the failed call starts no
\* price fetch, leaves the price cache as it was and appends nothing to the
\* conversion history.
C12_ConvertRejectedBeforeMutation ==
    [][\A c \in ConvCallers, a \in AssetInputs, b \in AssetInputs :
          (/\ instance = "engine"
           /\ InvalidPair(a, b)
           /\ \/ ConvertRejected(c, a, b)
              \/ ConvertPassthrough(c, a, b, workload.amount)
              \/ ConvertBegin(c, "convert", a, b, workload.amount, workload.options))
          => /\ out'.op = "convert"
             /\ ~out'.ok
             /\ price_cache' = price_cache
             /\ fetching' = fetching
             /\ converting' = converting
             /\ conversion_history' = conversion_history]_vars

\* a same-asset convert refused while the cache holds prices
C12_Witness ==
    /\ instance = "engine"
    /\ out.op = "convert"
    /\ ~out.ok
    /\ out.error = "same_asset"
    /\ HasEntry(price_cache["bgt"])

\* C13: getPrice, getConversionRate and convertAmount reject an asset code
\* outside the five supported ones, so the price cache never holds an entry
\* keyed by an unsupported asset code.
C13_CacheKeysSupported ==
    /\ \A a \in DOMAIN price_cache : HasEntry(price_cache[a]) => a \in SupportedAssets
    /\ (out.op = "getPrice" /\ out.asset \notin SupportedAssets) => out.threw

\* C14: the service's convertAmount(x, x, amount) returns to_amount =
\* from_amount = net_amount = amount with rate 1, fee 0 and slippage 0, for
\* every asset x and amount, and starts no price fetch and leaves the price
\* cache as it was.
C14_SameAssetPassthrough ==
    [][\A c \in ConvCallers, x \in AssetInputs, a \in PassthroughAmountInputs :
          (/\ instance = "service"
           /\ \/ ConvertPassthrough(c, x, x, a)
              \/ ConvertRejected(c, x, x)
              \/ ConvertBegin(c, "convert", x, x, a, workload.options))
          => /\ out'.op = "convert"
             /\ out'.ok
             /\ out'.result.from_amount = a
             /\ out'.result.to_amount = a
             /\ out'.result.net_amount = a
             /\ out'.result.rate = One
             /\ out'.result.fee = Zero
             /\ out'.result.slippage = Zero
             /\ price_cache' = price_cache
             /\ fetching' = fetching
             /\ converting' = converting]_vars

\* a same-asset convertAmount of an unsupported asset answered while the
\* cache holds prices
C14_Witness ==
    /\ instance = "service"
    /\ out.op = "convert"
    /\ out.ok
    /\ out.passthrough
    /\ out.from_asset = "xau"
    /\ out.result.to_amount = Norm(0, 10000)
    /\ HasEntry(price_cache["bgt"])

\* a returned conversion between two distinct supported assets
ConvertedOk ==
    /\ out.op = "convert"
    /\ out.ok
    /\ ~out.passthrough
    /\ ~InvalidPair(out.from_asset, out.to_asset)

\* the net converted amount of the returned conversion
NetConverted == IF instance = "engine" THEN out.result.to_asset.amount
                ELSE out.result.net_amount

\* C15: every successful conversion between two distinct supported assets
\* of an amount > 0 has a net converted amount >= 0.
C15_ToAmountNonNegative ==
    (ConvertedOk /\ MLt(Zero, out.amount)) => MLe(Zero, NetConverted)

\* C18: calculateFees gives for the same (amount, method) the same result
\* whatever has been settled in between, changes nothing in the settlements
\* store, and for a method code outside the configured set fails with the
\* unknown-method error.
C18_CalculateFeesPure ==
    [][\A a \in FeeAmountInputs :
          CalculateFeesCall(a, workload) =>
              /\ settlements' = settlements
              /\ inflight' = inflight
              /\ out'.result = calculateFees(instance, a, workload)
              /\ ~OwnMethod(instance, workload) =>
                    /\ ~out'.result.ok
                    /\ out'.result.error = "unknown_method"]_vars

\* C19: a conversion between distinct supported assets has original_rate =
\* from_price / to_price, conversion_fee = amount * fee_rate on the source
\* amount, to_amount = amount * conversion_rate - conversion_fee and
\* total_fee = conversion_fee + slippage; with slippage protection switched
\* off for the call conversion_rate = original_rate, slippage = 0 and
\* total_fee = conversion_fee.  (For convertAmount, whose result has rounded
\* fields: rate, fee and net_amount, compared after the same rounding.)
C19_PipelineFormulas ==
    ConvertedOk =>
        IF instance = "engine"
        THEN LET r == out.result
             IN  /\ MEq(r.original_rate,
                        MDiv(r.from_asset.price_per_unit, r.to_asset.price_per_unit))
                 /\ MEq(r.fees.conversion_fee,
                        MMul(out.amount, conversion_fee_rate(out.options)))
                 /\ MEq(r.to_asset.amount,
                        MSub(MMul(out.amount, r.conversion_rate), r.fees.conversion_fee))
                 /\ MEq(r.fees.total_fee, MAdd(r.fees.conversion_fee, r.fees.slippage))
                 /\ ~SlippageEnabled(out.options) =>
                       /\ MEq(r.conversion_rate, r.original_rate)
                       /\ MEq(r.fees.slippage, Zero)
                       /\ MEq(r.fees.total_fee, r.fees.conversion_fee)
        ELSE LET r == out.result
             IN  /\ MEq(r.rate, Round5(MDiv(r.price_from, r.price_to)))
                 /\ MEq(r.fee, Round2(MMul(out.amount, Norm(0, 2500))))
                 /\ MEq(r.net_amount,
                        Round2(MSub(MMul(out.amount, MDiv(r.price_from, r.price_to)),
                                    MMul(out.amount, Norm(0, 2500)))))

\* C20: the engine charges amount * options.fee_rate whenever the call
\* supplies a fee_rate, 0 included, and amount * 0.0005 only when it
\* supplies none.
C20_SuppliedFeeRateCharged ==
    (/\ instance = "engine"
     /\ out.op = "convert"
     /\ out.ok) =>
        out.result.fees.conversion_fee =
            MMul(out.amount, IF "fee_rate" \in DOMAIN out.options
                             THEN out.options.fee_rate
                             ELSE Norm(0, 500))

\* a convert call returns in this step (its conversion has been stored)
ConvertReturns ==
    /\ \E cv \in converting : cv.call.kind = "convert" /\ converting' = converting \ {cv}
    /\ instance = "engine"

\* C16: the conversion history never holds more than 10,000 entries, and a
\* conversion stored into a full history of 10,000 distinct conversions
\* evicts exactly the least recently inserted one: afterwards the history
\* is the former one without its first entry, followed by the new
\* conversion (the 10,000 most recent conversions)
C16_HistoryKeepsMostRecent ==
    /\ [](Len(conversion_history) <= HistoryLimit)
    /\ [][(ConvertReturns /\ Len(conversion_history) = HistoryLimit) =>
            /\ Len(conversion_history') = HistoryLimit
            /\ SubSeq(conversion_history', 1, HistoryLimit - 1) = Tail(conversion_history)
            /\ conversion_history'[HistoryLimit].conversion = out'.result]_vars

\* C17: the settlement store is bounded: after any sequence of
\* executeSettlement calls it holds at most 10,000 records (the oldest
\* one making room for a new one)
C17_SettlementStoreBounded == Len(settlements) <= 10000

\* the multipliers of the slippage cap, in tenths, by volatility level
ClaimedMultipliers ==
    [v \in {"low", "medium", "high", "unknown"} |->
        CASE v = "low" -> 5 [] v = "medium" -> 10 [] v = "high" -> 15 [] v = "unknown" -> 10]

\* amount * (1 - conversion_rate / original_rate), multiplied out by
\* original_rate; products are cut off after the sixth decimal, which
\* leaves the two sides within amount * 0.000001 + 0.000002 of each other
SlippageMatchesRates(r, amount) ==
    LET left == MMul(r.fees.slippage, r.original_rate)
        right == MMul(amount, MSub(r.original_rate, r.conversion_rate))
        tolerance == MAdd(MMul(amount, Norm(0, 1)), Norm(0, 2))
    IN  MLe(MSub(left, right), tolerance) /\ MLe(MSub(right, left), tolerance)

\* the rate is lowered, by no more than 0.002 * multiplier * 0.5 of itself
RateWithinCap(r, tenths) ==
    /\ MLe(r.conversion_rate, r.original_rate)
    /\ MLe(MMul(r.original_rate, MSub(One, Norm(0, 100 * tenths))), r.conversion_rate)

\* C21: slippage protection only lowers the rate, and by no more than
\* 0.002 * volatility_multiplier * 0.5 of it, the multiplier being the one
\* the table {low 0.5, medium 1.0, high 1.5, unknown 1.0} gives for the
\* volatility of the target asset's quote; slippage is
\* amount * (1 - conversion_rate / original_rate); with
\* slippage_protection = false the rate is not adjusted
C21_SlippageWithinCap ==
    out.op = "calculateConversion" =>
        IF SlippageEnabled(workload.options)
        THEN /\ workload.to_price_data.volatility \in DOMAIN ClaimedMultipliers
             /\ RateWithinCap(out.result,
                              ClaimedMultipliers[workload.to_price_data.volatility])
             /\ SlippageMatchesRates(out.result, workload.amount)
        ELSE /\ out.result.conversion_rate = out.result.original_rate
             /\ out.result.fees.slippage = Zero

\* the history grew by one entry at its end, the first entry making room
\* when the history was full
AppendedOne(before, after) ==
    /\ Len(after) > 0
    /\ \/ after = Append(before, after[Len(after)])
       \/ /\ Len(before) = HistoryLimit
          /\ after = Append(Tail(before), after[Len(after)])

\* C22: the conversion history is append-only: a conversion that returns
\* has added exactly one new entry at the end, and every entry stored
\* before is still there unchanged, except the oldest one when the
\* history was at its cap; so two conversions of the same millisecond are
\* both in the history
C22_HistoryAppendOnly ==
    [][ConvertReturns => AppendedOne(conversion_history, conversion_history')]_vars

\* a getPrice call returns in this step with a freshly fetched quote
FetchReturns(f) ==
    /\ f \in fetching
    /\ fetching' = fetching \ {f}
    /\ out'.op = "getPrice" /\ out'.path = "fetch"
    /\ out'.caller = f.caller /\ out'.asset = f.asset

\* a getPrice call returns in this step from a fresh cache entry
CacheReturns ==
    /\ fetching' = fetching
    /\ out'.op = "getPrice" /\ out'.path = "cache"

\* C23: a successful live fetch inside getPrice(a) makes the cache entry of
\* a the fetched quote, whole, and leaves every other asset's entry as it
\* was; a getPrice served from a fresh cache entry changes no entry
C23_FetchReplacesEntry ==
    [][(\A f \in fetching :
           FetchReturns(f) =>
               price_cache' = [price_cache EXCEPT ![f.asset] = out'.quote])
       /\ (CacheReturns => price_cache' = price_cache)]_vars

\* a quote fetched after the clock has advanced is in the cache next to an
\* older entry of another asset
C23_Witness ==
    /\ out.op = "getPrice" /\ out.path = "fetch"
    /\ now > 0
    /\ price_cache[out.asset] = out.quote
    /\ out.quote.timestamp = now
    /\ \E a \in AssetInputs \ {out.asset} :
          HasEntry(price_cache[a]) /\ price_cache[a].timestamp < now

\* C24: the price cache has no stampede protection: a getPrice call started
\* while the cache has no fresh entry for its asset issues its own fetch,
\* also when another call's fetch for that asset is outstanding, and the
\* cache holds the quote of the fetch that completed last
C24_NoStampedeProtection ==
    /\ \A c \in Callers, a \in AssetInputs :
          (~Busy(c) /\ ~CacheFresh(price_cache, a, now)) => ENABLED GetPriceFetch(c, a)
    /\ (out.op = "getPrice" /\ out.path = "fetch") => price_cache[out.asset] = out.quote

\* two calls missed the cache for one asset: the first has returned its
\* quote, which is in the cache; the second call's own fetch is still
\* outstanding and can return another price, which the cache then holds
C24_Witness ==
    /\ out.op = "getPrice" /\ out.path = "fetch"
    /\ price_cache[out.asset] = out.quote
    /\ out.quote.timestamp = now
    /\ \E f \in fetching :
          /\ f.asset = out.asset
          /\ f.caller # out.caller
          /\ \E d \in FluctuationInputs :
                ENABLED (/\ FetchResolved(f, d)
                         /\ out'.quote.price # out.quote.price
                         /\ price_cache'[f.asset] = out'.quote)

\* C25: a mixed settlement conserves the net amount: the INR leg and the
\* BINR leg of the receipt add up to the settlement's net_amount
C25_MixedLegsAddUp ==
    (/\ ReturnedOk
     /\ out.transaction_details.method = "mixed") =>
        MAdd(out.transaction_details.inr_amount,
             out.transaction_details.binr_amount) = out.net_amount

---------------------------------------------------------------------------
(* Payment processor (UTPPaymentProcessor)                                 *)
(*                                                                         *)
(* The processor is constructed with `require('./server').utpGateway`.     *)
(* server.js exports the express app, which has no such property, so the   *)
(* processor as wired holds `undefined` and every call of                  *)
(* `this.utpGateway.calculateConversion` throws a TypeError ("missing").   *)
(* A processor constructed with an object that has the method is           *)
(* modelled beside it ("present").  Time stamps of the records are left    *)
(* out.                                                                    *)

GatewayInputs == {"missing", "present"}

\* `null` and `undefined` as the value of a record-valued / string-valued field
Null == [type |-> "null"]

Undefined == "undefined"

PaymentData(customer_id, amount, currency, settlement_type) == [customer_id |-> customer_id, merchant_id |-> "mer_1", amount |-> amount, currency |-> currency, settlement_type |-> settlement_type]

\* one request per path through validatePaymentData and processPayment
PaymentInputs ==
    { PaymentData("cust_1", M(100), "binr", "binr"),
      PaymentData("cust_1", M(100), "bgt", "bgt"),
      PaymentData("cust_1", M(100), "bgt", "inr"),
      PaymentData("cust_1", M(100), "bgt", "mixed"),
      PaymentData("", M(100), "bgt", "inr"),
      PaymentData("cust_1", Zero, "bgt", "inr"),
      PaymentData("cust_1", M(-5), "bgt", "inr"),
      PaymentData("cust_1", M(5), "bgt", "inr"),
      PaymentData("cust_1", M(100), "usd", "inr"),
      PaymentData("cust_1", M(100), "bgt", "usd") }

\* validatePaymentData: the message of the error it throws, or "" when it returns
validatePaymentData(data) ==
    CASE data.customer_id = "" -> "Missing required field: customer_id"
      [] data.merchant_id = "" -> "Missing required field: merchant_id"
      [] data.amount = Zero -> "Missing required field: amount"
      [] data.currency = "" -> "Missing required field: currency"
      [] data.settlement_type = "" -> "Missing required field: settlement_type"
      [] data.currency \notin {"bgt", "bst", "bpt", "binr", "rwa"} -> "Unsupported currency"
      [] data.settlement_type \notin {"inr", "binr", "bgt", "mixed"} -> "Unsupported settlement type"
      [] MLe(data.amount, Zero) -> "Amount must be a positive number"
      [] MLt(data.amount, M(10)) -> "Minimum payment amount is 10"
      [] OTHER -> ""

\* what an operation of the processor throws
Thrown(message) == [thrown |-> TRUE, message |-> message]

Returned(value) == [thrown |-> FALSE, value |-> value]

\* this.utpGateway.calculateConversion(currency, settlement_type, amount): the
\* gateway that has the method stands for any such object; it quotes at par
GatewayConversion(gateway, currency, settlement_type, amount) ==
    IF gateway = "missing"
    THEN Thrown("Cannot read properties of undefined (reading 'calculateConversion')")
    ELSE Returned([conversion_rate |-> One, net_amount |-> amount, fee |-> Zero])

calculateMixedSettlement(amount, currency) ==
    [ type |-> "mixed",
      breakdown |-> << [currency |-> "inr", amount |-> MMul(amount, Norm(0, 700000)), percentage |-> 70],
                       [currency |-> "binr", amount |-> MMul(amount, Norm(0, 300000)), percentage |-> 30] >>,
      total_fee |-> MMul(amount, Norm(0, 1000)) ]

processPayment(gateway, payment) ==
    IF payment.currency = payment.settlement_type
    THEN Returned([ conversion_details |-> [type |-> "none", amount |-> payment.amount, fee |-> Zero],
                    estimated_settlement |-> [amount |-> payment.amount, currency |-> payment.currency] ])
    ELSE LET conversion == GatewayConversion(gateway, payment.currency, payment.settlement_type, payment.amount)
         IN IF conversion.thrown
            THEN conversion
            ELSE Returned([ conversion_details |->
                               IF payment.settlement_type = "mixed"
                               THEN calculateMixedSettlement(payment.amount, payment.currency)
                               ELSE [ from_currency |-> payment.currency,
                                      to_currency |-> payment.settlement_type,
                                      conversion_rate |-> conversion.value.conversion_rate,
                                      original_amount |-> payment.amount,
                                      converted_amount |-> conversion.value.net_amount,
                                      fee |-> conversion.value.fee ],
                            estimated_settlement |-> [ amount |-> conversion.value.net_amount,
                                                       currency |-> payment.settlement_type ] ])

\* the record createPayment stores under a fresh payment_id
NewPayment(payment_id, data) ==
    [ payment_id |-> payment_id,
      customer_id |-> data.customer_id,
      merchant_id |-> data.merchant_id,
      amount |-> data.amount,
      currency |-> data.currency,
      settlement_type |-> data.settlement_type,
      status |-> "pending",
      conversion_details |-> Null,
      settlement_details |-> Null,
      customer_signature |-> Undefined,
      error_message |-> Undefined ]

\* createPayment: validatePaymentData throws, nothing has been stored
CreatePaymentInvalid(data) ==
    /\ validatePaymentData(data) # ""
    /\ out' = [op |-> "createPayment", data |-> data, ok |-> FALSE,
               error |-> "Payment creation failed: " \o validatePaymentData(data)]
    /\ UNCHANGED <<instance, workload, settleVars, priceVars, convVars, payVars, authVars>>

\* createPayment: the record is stored, then processPayment throws
CreatePaymentFailed(data) ==
    LET payment == NewPayment(Len(transactions) + 1, data)
        payment_result == processPayment(workload.gateway, payment)
    IN /\ validatePaymentData(data) = ""
       /\ calls < MaxCalls
       /\ payment_result.thrown
       /\ calls' = calls + 1
       /\ transactions' = Append(transactions, payment)
       /\ out' = [op |-> "createPayment", data |-> data, ok |-> FALSE,
                  error |-> "Payment creation failed: " \o payment_result.message]
       /\ UNCHANGED <<instance, workload, settleVars, priceVars, conversion_history,
                      converting, confirming, authVars>>

\* createPayment: the record is stored, processPayment returns
CreatePaymentReturn(data) ==
    LET payment == NewPayment(Len(transactions) + 1, data)
        payment_result == processPayment(workload.gateway, payment)
    IN /\ validatePaymentData(data) = ""
       /\ calls < MaxCalls
       /\ ~payment_result.thrown
       /\ calls' = calls + 1
       /\ transactions' = Append(transactions, payment)
       /\ out' = [op |-> "createPayment", data |-> data, ok |-> TRUE,
                  payment_id |-> payment.payment_id, status |-> "processing",
                  conversion_details |-> payment_result.value.conversion_details,
                  estimated_settlement |-> payment_result.value.estimated_settlement]
       /\ UNCHANGED <<instance, workload, settleVars, priceVars, conversion_history,
                      converting, confirming, authVars>>

executeSingleSettlement(conversion_details, settlement_type) ==
    IF conversion_details = Null
    THEN Thrown("Cannot read properties of null (reading 'converted_amount')")
    ELSE Returned([ type |-> "single", currency |-> settlement_type,
                    amount |-> conversion_details.converted_amount,
                    status |-> "completed", fee |-> conversion_details.fee ])

executeMixedSettlement(conversion_details) ==
    IF conversion_details = Null
    THEN Thrown("Cannot read properties of null (reading 'breakdown')")
    ELSE Returned([ type |-> "mixed",
                    settlements |-> [i \in DOMAIN conversion_details.breakdown |->
                                        [ currency |-> conversion_details.breakdown[i].currency,
                                          amount |-> conversion_details.breakdown[i].amount,
                                          status |-> "completed" ]],
                    total_amount |-> MAdd(conversion_details.breakdown[1].amount,
                                          conversion_details.breakdown[2].amount),
                    total_fee |-> conversion_details.total_fee ])

\* executeSettlement of the payment processor
executePaymentSettlement(payment) ==
    IF payment.settlement_type = "mixed"
    THEN executeMixedSettlement(payment.conversion_details)
    ELSE executeSingleSettlement(payment.conversion_details, payment.settlement_type)

\* the catch block of confirmPayment
MarkPaymentFailed(store, payment_id, message) ==
    IF payment_id \in DOMAIN store
    THEN [store EXCEPT ![payment_id].status = "failed", ![payment_id].error_message = message]
    ELSE store

\* confirmPayment: one of the two entry checks throws inside the try block
ConfirmPaymentThrows(payment_id, customer_signature) ==
    LET message == IF payment_id \notin DOMAIN transactions
                   THEN "Payment not found"
                   ELSE "Payment already processed"
    IN /\ IF payment_id \in DOMAIN transactions
          THEN transactions[payment_id].status # "pending"
          ELSE TRUE
       /\ transactions' = MarkPaymentFailed(transactions, payment_id, message)
       /\ out' = [op |-> "confirmPayment", payment_id |-> payment_id, ok |-> FALSE,
                  error |-> message]
       /\ UNCHANGED <<instance, workload, settleVars, priceVars, convVars, confirming, authVars>>

\* confirmPayment up to `await this.executeSettlement(payment)`
ConfirmPaymentStart(payment_id, customer_signature) ==
    /\ payment_id \in DOMAIN transactions
    /\ transactions[payment_id].status = "pending"
    /\ transactions' = [transactions EXCEPT ![payment_id].status = "processing",
                                            ![payment_id].customer_signature = customer_signature]
    /\ confirming' = confirming \cup {payment_id}
    /\ UNCHANGED <<instance, workload, settleVars, out, priceVars, convVars, authVars>>

\* confirmPayment from the await on: the settlement of the payment as it was
\* when the call was suspended has resolved or rejected
ConfirmPaymentResume(payment_id) ==
    LET payment == transactions[payment_id]
        settlement_result == executePaymentSettlement(payment)
    IN /\ payment_id \in confirming
       /\ confirming' = confirming \ {payment_id}
       /\ IF settlement_result.thrown
          THEN /\ transactions' = MarkPaymentFailed(transactions, payment_id, settlement_result.message)
               /\ out' = [op |-> "confirmPayment", payment_id |-> payment_id, ok |-> FALSE,
                          error |-> settlement_result.message]
          ELSE /\ transactions' = [transactions EXCEPT
                                      ![payment_id].status = "completed",
                                      ![payment_id].settlement_details = settlement_result.value]
               /\ out' = [op |-> "confirmPayment", payment_id |-> payment_id, ok |-> TRUE,
                          status |-> "completed", settlement |-> settlement_result.value]
       /\ UNCHANGED <<instance, workload, settleVars, priceVars, convVars, authVars>>

GetPaymentStatus(payment_id) ==
    /\ out' = IF payment_id \in DOMAIN transactions
              THEN [op |-> "getPaymentStatus", payment_id |-> payment_id, ok |-> TRUE,
                    status |-> transactions[payment_id].status,
                    amount |-> transactions[payment_id].amount,
                    currency |-> transactions[payment_id].currency,
                    settlement_type |-> transactions[payment_id].settlement_type,
                    settlement_details |-> transactions[payment_id].settlement_details]
              ELSE [op |-> "getPaymentStatus", payment_id |-> payment_id, ok |-> FALSE,
                    error |-> "Payment not found"]
    /\ UNCHANGED <<instance, workload, settleVars, priceVars, convVars, payVars, authVars>>

PaymentIds == 1..(MaxCalls + 1)

PaymentInit ==
    /\ instance = "engine"
    /\ workload \in {[gateway |-> g] : g \in GatewayInputs}
    /\ settlements = <<>>
    /\ inflight = {}
    /\ out = NoOut
    /\ price_cache = [a \in AssetInputs |-> NoEntry]
    /\ now = 0
    /\ fetching = {}
    /\ conversion_history = <<>>
    /\ converting = {}
    /\ calls = 0
    /\ NoPayments
    /\ NoAccounts

PaymentNext ==
    \/ \E data \in PaymentInputs : CreatePaymentInvalid(data)
    \/ \E data \in PaymentInputs : CreatePaymentFailed(data)
    \/ \E data \in PaymentInputs : CreatePaymentReturn(data)
    \/ \E id \in PaymentIds : ConfirmPaymentThrows(id, "sig_1")
    \/ \E id \in PaymentIds : ConfirmPaymentStart(id, "sig_1")
    \/ \E id \in confirming : ConfirmPaymentResume(id)
    \/ \E id \in PaymentIds : GetPaymentStatus(id)

PaymentSpec == PaymentInit /\ [][PaymentNext]_vars

\* C26: a confirmPayment call for a payment that is being processed or has
\* completed is rejected with 'Payment already processed' and leaves the
\* stored payment, status included, as it was: it is never moved to 'failed'.
C26_SecondConfirmationLeavesPayment ==
    [][\A id \in DOMAIN transactions :
          (transactions[id].status \in {"processing", "completed"}
           /\ ConfirmPaymentThrows(id, "sig_1"))
          => (out'.error = "Payment already processed" /\ transactions' = transactions)]_vars

\* C27: a confirmPayment call on a payment that createPayment returned, which
\* no other call interfered with, ends with the payment 'completed' and its
\* settlement_details set, for single and for mixed settlement types.
CreatedSuccessfully(payment) == ~processPayment(workload.gateway, payment).thrown

C27_CreatedPaymentCompletes ==
    [][\A id \in confirming :
          (/\ CreatedSuccessfully(transactions[id])
           /\ transactions[id].status = "processing"
           /\ ConfirmPaymentResume(id))
          => (/\ out'.ok
              /\ transactions'[id].status = "completed"
              /\ transactions'[id].settlement_details # Null)]_vars

\* C28: a createPayment call that reports an error, from validation or from
\* processPayment, leaves no record of the request in the transactions store.
C28_CreatePaymentAllOrNothing ==
    [][\A data \in PaymentInputs :
          (CreatePaymentInvalid(data) \/ CreatePaymentFailed(data))
          => transactions' = transactions]_vars

---------------------------------------------------------------------------
(* Auth manager (UTPAuthManager)                                           *)
(*                                                                         *)
(* A JSON web token signed with HS256 is a function of its payload and     *)
(* the secret: the refresh token of a user is determined by user_id and    *)
(* iat, the second of Date.now() at which jwt.sign ran.  No token expires  *)
(* within MaxTime (refresh tokens live 30 days), the sessions Map is left  *)
(* out, and the profile fields of a user that no operation here reads      *)
(* (phone, name, kyc data, preferences, time stamps) are left out.         *)

UserData(email, password, phone, name) == [email |-> email, password |-> password, phone |-> phone, name |-> name]

\* the e-mail addresses, passwords and phone numbers of the inputs that match
\* email_regex, are 8 or more characters long, match password_regex, and match
\* phone_regex
WellFormedEmails == {"a@x.io", "b@x.io"}

LongPasswords == {"Passw0rd!", "S3cret!pw", "password1"}

StrongPasswords == {"Passw0rd!", "S3cret!pw", "Pw0!"}

WellFormedPhones == {"+91 98100"}

\* one userData per branch of validateUserData, two e-mail addresses, and two
\* passwords for the first address
UserInputs ==
    { UserData("a@x.io", "Passw0rd!", "+91 98100", "Asha"),
      UserData("a@x.io", "S3cret!pw", "+91 98100", "Asha"),
      UserData("b@x.io", "Passw0rd!", "+91 98100", "Bala"),
      UserData("a@x.io", "Passw0rd!", "+91 98100", ""),
      UserData("a.x.io", "Passw0rd!", "+91 98100", "Asha"),
      UserData("a@x.io", "Pw0!", "+91 98100", "Asha"),
      UserData("a@x.io", "password1", "+91 98100", "Asha"),
      UserData("a@x.io", "Passw0rd!", "phone", "Asha") }

\* validateUserData: the message of the error it throws, or "" when it returns
validateUserData(data) ==
    CASE data.email = "" -> "Missing required field: email"
      [] data.password = "" -> "Missing required field: password"
      [] data.phone = "" -> "Missing required field: phone"
      [] data.name = "" -> "Missing required field: name"
      [] data.email \notin WellFormedEmails -> "Invalid email format"
      [] data.password \notin LongPasswords -> "Password must be at least 8 characters long"
      [] data.password \notin StrongPasswords -> "Password must contain uppercase, lowercase, number, and special character"
      [] data.phone \notin WellFormedPhones -> "Invalid phone number format"
      [] OTHER -> ""

\* this.users.has(email)
HasUser(store, email) == \E i \in DOMAIN store : store[i].email = email

\* this.users.get(email), for an email the Map has
GetUser(store, email) == store[CHOOSE i \in DOMAIN store : store[i].email = email]

\* this.users.set(email, user): a key the Map has keeps its place and gets the new value
SetUser(store, email, user) ==
    IF HasUser(store, email)
    THEN [store EXCEPT ![CHOOSE i \in DOMAIN store : store[i].email = email] = user]
    ELSE Append(store, user)

getUserById(store, user_id) ==
    IF \E i \in DOMAIN store : store[i].user_id = user_id
    THEN store[CHOOSE i \in DOMAIN store : store[i].user_id = user_id]
    ELSE Null

\* bcrypt.hash(password, 12); bcrypt.compare(p, h) holds exactly for the password hashed
Hash(password) == [hash_of |-> password]

\* the user record registerUser builds; user_id stands for the uuid
NewUser(user_id, email, hashed_password) ==
    [ type |-> "user",
      user_id |-> user_id,
      email |-> email,
      user_type |-> "customer",
      hashed_password |-> hashed_password,
      kyc_status |-> "pending",
      verification_level |-> 1,
      account_status |-> "active" ]

\* jwt.sign of the access / refresh payload of a user at the clock's second
SignToken(token_type, user_id, time) == [token_type |-> token_type, user_id |-> user_id, iat |-> time \div 1000]

\* generateTokens: the token pair; the callers below add the refresh token to
\* the store as its last statement does
generateTokens(user, time) == [access_token |-> SignToken("access", user.user_id, time), refresh_token |-> SignToken("refresh", user.user_id, time)]

\* registerUser: validateUserData throws, or the e-mail address is registered
RegisterUserRejected(userData) ==
    LET message == IF validateUserData(userData) # ""
                   THEN validateUserData(userData)
                   ELSE "User already registered with this email"
    IN /\ validateUserData(userData) # "" \/ HasUser(users, userData.email)
       /\ out' = [op |-> "registerUser", email |-> userData.email, ok |-> FALSE,
                  error |-> "User registration failed: " \o message]
       /\ UNCHANGED <<instance, workload, settleVars, priceVars, convVars, payVars, authVars>>

\* registerUser up to `await bcrypt.hash(password, saltRounds)`
RegisterUserStart(userData) ==
    /\ validateUserData(userData) = ""
    /\ ~HasUser(users, userData.email)
    /\ calls < MaxCalls
    /\ calls' = calls + 1
    /\ registering' = registering \cup {[call |-> calls + 1, email |-> userData.email,
                                         password |-> userData.password]}
    /\ UNCHANGED <<instance, workload, settleVars, out, priceVars, conversion_history,
                   converting, payVars, users, refresh_tokens>>

\* registerUser from the await on; the uuid of the user is the number of the call
RegisterUserResume(r) ==
    /\ r \in registering
    /\ registering' = registering \ {r}
    /\ users' = SetUser(users, r.email, NewUser(r.call, r.email, Hash(r.password)))
    /\ out' = [op |-> "registerUser", email |-> r.email, ok |-> TRUE, user_id |-> r.call]
    /\ UNCHANGED <<instance, workload, settleVars, priceVars, convVars, payVars, refresh_tokens>>

\* authenticateUser: unknown e-mail address, suspended account or wrong password
AuthenticateUserRejected(email, password) ==
    LET message == CASE ~HasUser(users, email) -> "Invalid email or password"
                     [] GetUser(users, email).account_status = "suspended" ->
                            "Account is suspended. Please contact support."
                     [] OTHER -> "Invalid email or password"
    IN /\ IF HasUser(users, email)
          THEN \/ GetUser(users, email).account_status = "suspended"
               \/ GetUser(users, email).hashed_password # Hash(password)
          ELSE TRUE
       /\ out' = [op |-> "authenticateUser", email |-> email, ok |-> FALSE,
                  error |-> "Authentication failed: " \o message]
       /\ UNCHANGED <<instance, workload, settleVars, priceVars, convVars, payVars, authVars>>

\* authenticateUser: the tokens are signed and the refresh token is stored
AuthenticateUser(email, password) ==
    /\ HasUser(users, email)
    /\ GetUser(users, email).account_status # "suspended"
    /\ GetUser(users, email).hashed_password = Hash(password)
    /\ calls < MaxCalls
    /\ calls' = calls + 1
    /\ LET tokens == generateTokens(GetUser(users, email), now)
       IN /\ refresh_tokens' = refresh_tokens \cup {tokens.refresh_token}
          /\ out' = [op |-> "authenticateUser", email |-> email, ok |-> TRUE,
                     user_id |-> GetUser(users, email).user_id,
                     access_token |-> tokens.access_token,
                     refresh_token |-> tokens.refresh_token]
    /\ UNCHANGED <<instance, workload, settleVars, priceVars, conversion_history,
                   converting, payVars, users, registering>>

\* refreshAccessToken: the token is not in the store, or its user is gone
RefreshAccessTokenRejected(refresh_token) ==
    LET message == IF refresh_token \notin refresh_tokens
                   THEN "Invalid refresh token"
                   ELSE "User not found"
    IN /\ \/ refresh_token \notin refresh_tokens
          \/ getUserById(users, refresh_token.user_id) = Null
       /\ out' = [op |-> "refreshAccessToken", presented |-> refresh_token, ok |-> FALSE,
                  error |-> "Token refresh failed: " \o message]
       /\ UNCHANGED <<instance, workload, settleVars, priceVars, convVars, payVars, authVars>>

\* refreshAccessToken: generateTokens stores the new refresh token, then the
\* presented one is deleted
RefreshAccessToken(refresh_token) ==
    /\ refresh_token \in refresh_tokens
    /\ getUserById(users, refresh_token.user_id) # Null
    /\ LET new_tokens == generateTokens(getUserById(users, refresh_token.user_id), now)
       IN /\ refresh_tokens' = (refresh_tokens \cup {new_tokens.refresh_token}) \ {refresh_token}
          /\ out' = [op |-> "refreshAccessToken", presented |-> refresh_token, ok |-> TRUE,
                     access_token |-> new_tokens.access_token,
                     refresh_token |-> new_tokens.refresh_token]
    /\ UNCHANGED <<instance, workload, settleVars, priceVars, convVars, payVars,
                   users, registering>>

\* the refresh tokens a caller may present: every token a user could have been issued
TokenInputs == {SignToken("refresh", u, t) : u \in 1..MaxCalls, t \in {n * TickMs : n \in 0..(MaxTime \div TickMs)}}

AuthInit ==
    /\ instance = "engine"
    /\ workload = "auth"
    /\ settlements = <<>>
    /\ inflight = {}
    /\ out = NoOut
    /\ price_cache = [a \in AssetInputs |-> NoEntry]
    /\ now = 0
    /\ fetching = {}
    /\ conversion_history = <<>>
    /\ converting = {}
    /\ calls = 0
    /\ NoPayments
    /\ NoAccounts

AuthNext ==
    \/ \E userData \in UserInputs : RegisterUserRejected(userData)
    \/ \E userData \in UserInputs : RegisterUserStart(userData)
    \/ \E r \in registering : RegisterUserResume(r)
    \/ \E userData \in UserInputs : AuthenticateUserRejected(userData.email, userData.password)
    \/ \E userData \in UserInputs : AuthenticateUser(userData.email, userData.password)
    \/ \E t \in TokenInputs : RefreshAccessTokenRejected(t)
    \/ \E t \in TokenInputs : RefreshAccessToken(t)
    \/ Tick

AuthSpec == AuthInit /\ [][AuthNext]_vars

\* C29: at most one registerUser call succeeds per e-mail address, also when
\* two registrations of one address interleave at the password hashing: a
\* registration that succeeds finds no user under its address and replaces
\* no stored user.
C29_OneRegistrationPerEmail ==
    [][\A r \in registering :
          RegisterUserResume(r)
          => (/\ ~HasUser(users, r.email)
              /\ \A i \in DOMAIN users : users'[i] = users[i])]_vars

\* C30: after a successful refreshAccessToken(t) the presented token t is no
\* longer in the refresh-token store and the returned refresh token is, also
\* when the refresh runs in the second in which t was issued.
C30_RefreshTokensRotate ==
    [][\A t \in refresh_tokens :
          RefreshAccessToken(t)
          => (/\ t \notin refresh_tokens'
              /\ out'.refresh_token \in refresh_tokens')]_vars

====
